---- MODULE Spec2Model ----
(***************************************************************************)
(* Verification model of the temporal layout engine of obsidian-bases-views *)
(* (Gantt row packing, hierarchy sort, group aggregation) and of the        *)
(* drag / resize gesture hooks that write dates back to the record store.   *)
(*                                                                          *)
(* Dates are whole days, counted as integers.  A Task is a record with the  *)
(* fields of the Task interface (types/view-config.ts): id, title,          *)
(* startDate, endDate, row, group, parentId.  The JavaScript values         *)
(* undefined and '' (both falsy) are written NoValue.                       *)
(***************************************************************************)
EXTENDS Integers, Sequences, FiniteSets, TLC

VARIABLES
    packIn,      \* Interval Packer: the tasks handed to calculateTaskRows
    packOut,     \* Interval Packer: the tasks it returned, row populated
    hierIn,      \* Hierarchy Sorter: the tasks handed to sortTasksByHierarchy
    hierOut,     \* Hierarchy Sorter: the tasks it returned
    entries,           \* useGanttData: the records of the query result
    groupByProperty,   \* useGanttData: state groupByProperty ('' = no grouping)
    hierarchyProperty, \* useGanttData: state hierarchyProperty
    collapsedGroups,   \* useGanttData: state collapsedGroups
    gantt,             \* useGanttData: the memoised { tasks, groups } it returns
    store,       \* the record's stored start and end date (its frontmatter)
    inFlight,    \* property-update requests issued and not yet completed
    gesture,     \* the pointer gesture in progress and what its closure captured
    timelineTasks,   \* calculateTimelineRange: the tasks it is given
    timelineRange,   \* calculateTimelineRange: the [start, end] it returns
    positionIn,   \* calculateTaskPosition and getTimelineUnitCount: the dates they are given
    positionOut,   \* calculateTaskPosition and getTimelineUnitCount: what they return
    roundTripIn,   \* calculateDateFromDelta: the date, the whole-unit distance and pixelsPerUnit
    roundTripOut,   \* calculateDateFromDelta: the dates after the drag there and the drag back
    weekEvents,   \* getMultiDayEventsForWeek: the events it is given
    weekOut,   \* getMultiDayEventsForWeek: the events it returns, in order
    labelIn,   \* valueToString: the value it is given
    labelOut,   \* valueToString: the string it returns, as a sequence of characters
    boardEntries,   \* KanbanBoard: the cards, each with the value of its group-by property
    boardDrop,   \* handleDragEnd: the last drop and the property updates it issued
    collapseConfig,   \* GanttBasesView: the collapsedGroups list kept in the view configuration
    collapseView,   \* the open GanttView: the state of its useGanttData hook, or nothing when no view is open
    clickRefs,   \* TaskBar: hadMovementRef of useTaskDrag and of useTaskResize, and the gesture in progress
    clickLog,   \* TaskBar: the last click event and whether handleClick opened the note
    markersIn,   \* Timeline and Grid: the tasks' dates, the weekday of day 1, the step and the timeline range
    markersOut,   \* Timeline and Grid: the markers of generateTimelineMarkers and the count of getTimelineUnitCount
    gridMonth,   \* MonthView: the month shown and the weekday of day 1 of the year
    gridEvents,   \* MonthView: the events of the calendar
    gridOut,   \* MonthView: the weeks of the grid and the multi-day events rendered in each, with their spans
    stepDragIn,   \* useTaskDrag: the item's dates at drag start, the timeline step and the pixels per unit
    stepDragOut   \* useTaskDrag: the pointer's deltaX of the last mouse move and the dates it wrote

NoValue == ""

\* ------------------------------------------------------------------------
\* Bounds of the model
\* ------------------------------------------------------------------------
PackMaxDay == 5
PackMaxTasks == 3
HierMaxStart == 2
GanttMaxDay == 2
MaxDate == 3
MaxInFlight == 2
PixelsPerUnit == 4
TicksPerDay == 2
TimelineMonths == 2
PositionMaxDay == 10

\* ------------------------------------------------------------------------
\* Generic helpers
\* ------------------------------------------------------------------------
SetMax(S) == CHOOSE m \in S : \A x \in S : x <= m

SetMin(S) == CHOOSE m \in S : \A x \in S : m <= x

Task(id, title, s, e, row, group, parent) ==
    [ id |-> id, title |-> title, startDate |-> s, endDate |-> e,
      row |-> row, group |-> group, parentId |-> parent ]

\* { ...task, row }: the row the item came with is replaced.
WithRowAdded(t, r) == [ t EXCEPT !.row = @ + r ]

WithRow(t, r) == [ t EXCEPT !.row = r ]

\* Array.prototype.sort with the comparator a.startDate - b.startDate.
\* The sort is stable: an element goes after every element already placed
\* whose start date is not later than its own.
RECURSIVE InsertByStart(_, _)
InsertByStart(t, sorted) ==
    IF sorted = << >> THEN << t >>
    ELSE IF Head(sorted).startDate <= t.startDate
         THEN << Head(sorted) >> \o InsertByStart(t, Tail(sorted))
         ELSE << t >> \o sorted

RECURSIVE SortByStart(_)
SortByStart(tasks) ==
    IF tasks = << >> THEN << >>
    ELSE InsertByStart(tasks[Len(tasks)], SortByStart(SubSeq(tasks, 1, Len(tasks) - 1)))

\* tasksOverlap: inclusive ranges intersect.
tasksOverlap(task1, task2) ==
    task1.startDate <= task2.endDate /\ task1.endDate >= task2.startDate

\* ------------------------------------------------------------------------
\* Interval Packer: dateCalculations.ts calculateTaskRows
\* ------------------------------------------------------------------------
\* The row-availability test of the while loop: rowEndDates[row] < startDate.
RowIsFreeLax(rowEnd, startDate) == rowEnd <= startDate

RowIsFree(rowEnd, startDate) == rowEnd < startDate

\* The while loop: first row (1-based index into rowEndDates) that is free,
\* or Len + 1 when none is.
RECURSIVE FirstAvailableRow(_, _, _)
FirstAvailableRow(rowEndDates, startDate, row) ==
    IF row > Len(rowEndDates) THEN row
    ELSE IF RowIsFree(rowEndDates[row], startDate) THEN row
         ELSE FirstAvailableRow(rowEndDates, startDate, row + 1)

\* rowEndDates[row] = task.endDate, appending when row is new.
SetRowEnd(rowEndDates, row, endDate) ==
    IF row > Len(rowEndDates) THEN Append(rowEndDates, endDate)
    ELSE [ rowEndDates EXCEPT ![row] = endDate ]

\* sorted.map(...) with the rowEndDates array threaded through.
RECURSIVE PackSorted(_, _)
PackSorted(sorted, rowEndDates) ==
    IF sorted = << >> THEN << >>
    ELSE LET task == Head(sorted)
             row  == FirstAvailableRow(rowEndDates, task.startDate, 1)
         IN  << WithRow(task, row - 1) >>
             \o PackSorted(Tail(sorted), SetRowEnd(rowEndDates, row, task.endDate))

calculateTaskRows(tasks) == PackSorted(SortByStart(tasks), << >>)

\* ------------------------------------------------------------------------
\* Hierarchy Sorter: ganttHelpers.ts sortTasksByHierarchy
\* ------------------------------------------------------------------------
\* taskMap, built by "1. Build maps": for each task in order, set(title) then
\* set(id); a later set of the same key replaces the earlier one.
taskMapHas(tasks, key) ==
    \E i \in 1..Len(tasks) : tasks[i].title = key \/ tasks[i].id = key

taskMapGet(tasks, key) ==
    tasks[SetMax({ i \in 1..Len(tasks) : tasks[i].title = key \/ tasks[i].id = key })]

\* "2. Identify relationships": the parent a task's parentId resolves to.
HasResolvedParent(tasks, task) ==
    task.parentId # NoValue /\ taskMapHas(tasks, task.parentId)

\* hasParent: the titles of the tasks whose parent resolved.
hasParentSet(tasks) ==
    { tasks[i].title : i \in { j \in 1..Len(tasks) : HasResolvedParent(tasks, tasks[j]) } }

\* An unresolved parentId is cleared on the task object (line 152).
ClearInvalidParent(tasks, task) ==
    IF task.parentId # NoValue /\ ~taskMapHas(tasks, task.parentId)
    THEN [ task EXCEPT !.parentId = NoValue ]
    ELSE task

ClearInvalidParents(tasks) ==
    [ i \in 1..Len(tasks) |-> ClearInvalidParent(tasks, tasks[i]) ]

\* childrenMap.get(parentKey): the tasks whose parent resolved to a task of
\* that title, in input order (parentKey is parent.title).
RECURSIVE childrenOf(_, _, _)
childrenOf(tasks, parentKey, i) ==
    IF i > Len(tasks) THEN << >>
    ELSE IF /\ HasResolvedParent(tasks, tasks[i])
            /\ taskMapGet(tasks, tasks[i].parentId).title = parentKey
         THEN << ClearInvalidParent(tasks, tasks[i]) >> \o childrenOf(tasks, parentKey, i + 1)
         ELSE childrenOf(tasks, parentKey, i + 1)

\* sortedTasks.push(task) inside visit.
VisitPushFront(sorted, task) == << task >> \o sorted

VisitPush(sorted, task) == Append(sorted, task)

\* visit(task): st is the triple of sortedTasks, visited and processing.
RECURSIVE visit(_, _, _)
RECURSIVE visitEach(_, _, _)
visit(tasks, task, st) ==
    IF task.title \in st.visited THEN st
    ELSE IF task.title \in st.processing THEN st
    ELSE LET entered == [ sorted     |-> VisitPush(st.sorted, task),
                          visited    |-> st.visited \cup { task.title },
                          processing |-> st.processing \cup { task.title } ]
             children == SortByStart(childrenOf(tasks, task.title, 1))
             after == visitEach(tasks, children, entered)
         IN  [ after EXCEPT !.processing = @ \ { task.title } ]

\* children.forEach(child => visit(child)) and roots.forEach(root => visit(root)).
visitEach(tasks, list, st) ==
    IF list = << >> THEN st
    ELSE visitEach(tasks, Tail(list), visit(tasks, Head(list), st))

\* "3. Separate Roots from True Orphans".
IsRoot(tasks, task) ==
    /\ task.title \notin hasParentSet(tasks)
    /\ childrenOf(tasks, task.title, 1) # << >>

IsTrueOrphan(tasks, task) ==
    /\ task.title \notin hasParentSet(tasks)
    /\ childrenOf(tasks, task.title, 1) = << >>

roots(tasks) ==
    SelectSeq(ClearInvalidParents(tasks), LAMBDA t : IsRoot(tasks, t))

trueOrphans(tasks) ==
    SelectSeq(ClearInvalidParents(tasks), LAMBDA t : IsTrueOrphan(tasks, t))

\* The synthetic "Orphans" entry (lines 211-223).
virtualOrphanParent(orphans) ==
    Task("virtual-orphan-parent", "Orphans",
         SetMin({ orphans[i].startDate : i \in 1..Len(orphans) }),
         SetMax({ orphans[i].endDate : i \in 1..Len(orphans) }),
         0, "Orphans", NoValue)

IsVirtual(task) == task.id = "virtual-orphan-parent"

\* "6. Handle True Orphans": what is appended after the trees.
OrphanSectionBare(orphans) == SortByStart(orphans)

OrphanSection(orphans) ==
    IF Len(orphans) > 0
    THEN << virtualOrphanParent(orphans) >> \o SortByStart(orphans)
    ELSE << >>

\* "7. Re-assign rows": row = index.
ReassignRows(sorted) == [ i \in 1..Len(sorted) |-> WithRow(sorted[i], i - 1) ]

sortTasksByHierarchy(tasks) ==
    LET start == [ sorted |-> << >>, visited |-> {}, processing |-> {} ]
        trees == visitEach(tasks, SortByStart(roots(tasks)), start).sorted
    IN  ReassignRows(trees \o OrphanSection(trueOrphans(tasks)))

\* ------------------------------------------------------------------------
\* Gantt pipeline: ganttHelpers.ts entriesToTasks, calculateTaskRows,
\* groupTasksByProperty, calculateGroupedRows and hooks/useGanttData.ts
\* ------------------------------------------------------------------------
\* An entry carries its start, end, group-by and parent property values.
Entry(id, title, s, e, groupRaw, parentRaw) ==
    [ id |-> id, title |-> title, start |-> s, end |-> e,
      groupRaw |-> groupRaw, parentRaw |-> parentRaw ]

\* parseDate: a property value that is a day number parses to that day;
\* anything else (written as a value below 1) gives null.
NullDate == 0

parseDateLenient(value) == IF value >= 1 THEN value ELSE 1

parseDate(value) == IF value >= 1 THEN value ELSE NullDate

\* groupValue of entriesToTasks (lines 81-86); the property values of the
\* model are plain strings, which valueToString returns unchanged.
groupValueOf(groupBy, rawGroupValue) ==
    IF groupBy = NoValue THEN NoValue
    ELSE IF rawGroupValue # NoValue THEN rawGroupValue ELSE "No Group"

\* parentId of entriesToTasks (lines 89-97).
parentIdOf(hierarchy, rawParent) ==
    IF hierarchy # NoValue /\ rawParent # NoValue THEN rawParent ELSE NoValue

\* entries.forEach of entriesToTasks: row is the entry's index.
RECURSIVE entryTasks(_, _, _, _)
entryTasks(ents, groupBy, hierarchy, index) ==
    IF index > Len(ents) THEN << >>
    ELSE LET entry == ents[index]
         IN  (IF parseDate(entry.start) # NullDate /\ parseDate(entry.end) # NullDate
              THEN << Task(entry.id, entry.title, parseDate(entry.start),
                           parseDate(entry.end), index - 1,
                           groupValueOf(groupBy, entry.groupRaw),
                           parentIdOf(hierarchy, entry.parentRaw)) >>
              ELSE << >>)
             \o entryTasks(ents, groupBy, hierarchy, index + 1)

entriesToTasks(ents, groupBy, hierarchy) ==
    IF hierarchy # NoValue
    THEN sortTasksByHierarchy(entryTasks(ents, groupBy, hierarchy, 1))
    ELSE entryTasks(ents, groupBy, hierarchy, 1)

\* ganttHelpers.ts calculateTaskRows: every task its own row, by start date.
packedTaskRows(tasks) == calculateTaskRows(tasks)

ganttHelpersCalculateTaskRows(tasks) ==
    LET sorted == SortByStart(tasks)
    IN  [ index \in 1..Len(sorted) |-> WithRow(sorted[index], index - 1) ]

\* groupTasksByProperty: the Map's keys in insertion order ...
groupNameOf(task) == IF task.group # NoValue THEN task.group ELSE "No Group"

RECURSIVE groupKeys(_, _)
groupKeys(tasks, seen) ==
    IF tasks = << >> THEN << >>
    ELSE LET name == groupNameOf(Head(tasks))
         IN  IF name \in seen THEN groupKeys(Tail(tasks), seen)
             ELSE << name >> \o groupKeys(Tail(tasks), seen \cup { name })

\* ... and the tasks of one key, in task order.
groupMembers(tasks, name) == SelectSeq(tasks, LAMBDA t : groupNameOf(t) = name)

\* String.prototype.localeCompare on the group names of the model.
NameRank(name) ==
    CASE name = "Alpha" -> 1 [] name = "Beta" -> 2 [] name = "No Group" -> 3
      [] name = "Orphans" -> 4 [] OTHER -> 5

localeCompare(a, b) ==
    IF NameRank(a) < NameRank(b) THEN -1 ELSE IF NameRank(a) > NameRank(b) THEN 1 ELSE 0

\* The comparator of sortedGroupNames (lines 351-355).
compareGroupNamesPlain(a, b) == localeCompare(a, b)

compareGroupNames(a, b) ==
    IF a = "No Group" THEN 1
    ELSE IF b = "No Group" THEN -1
    ELSE localeCompare(a, b)

RECURSIVE insertGroupName(_, _)
insertGroupName(name, sorted) ==
    IF sorted = << >> THEN << name >>
    ELSE IF compareGroupNames(Head(sorted), name) <= 0
         THEN << Head(sorted) >> \o insertGroupName(name, Tail(sorted))
         ELSE << name >> \o sorted

RECURSIVE sortGroupNames(_)
sortGroupNames(names) ==
    IF names = << >> THEN << >>
    ELSE insertGroupName(names[Len(names)], sortGroupNames(SubSeq(names, 1, Len(names) - 1)))

TaskGroup(name, tasks, startRow, rowCount, isCollapsed) ==
    [ name |-> name, tasks |-> tasks, startRow |-> startRow,
      rowCount |-> rowCount, isCollapsed |-> isCollapsed ]

\* The row a group's first task is offset by: currentRow after the header
\* row was reserved (currentRow++ at line 363).
rowAfterHeaderNoReserve(groupStartRow) == groupStartRow

rowAfterHeader(groupStartRow) == groupStartRow + 1

\* sortedGroupNames.forEach of calculateGroupedRows: acc holds allTasks and
\* groups, currentRow the running global row.
\* groupRowCount = maxLocalRow + 2: +1 for the 0-index, +1 for the header.
groupRowCountNoHeader(maxLocalRow) == maxLocalRow + 1

groupRowCount(maxLocalRow) == maxLocalRow + 2

RECURSIVE groupedRowsFrom(_, _, _, _, _)
groupedRowsFrom(names, tasks, collapsed, currentRow, acc) ==
    IF names = << >> THEN acc
    ELSE LET groupName == Head(names)
             groupTasks == groupMembers(tasks, groupName)
             groupStartRow == currentRow
             afterHeader == rowAfterHeader(groupStartRow)
         IN  IF groupName \in collapsed
             THEN groupedRowsFrom(Tail(names), tasks, collapsed, afterHeader,
                    [ tasks  |-> acc.tasks,
                      groups |-> Append(acc.groups,
                                   TaskGroup(groupName, groupTasks, groupStartRow, 1, TRUE)) ])
             ELSE LET tasksWithLocalRows == ganttHelpersCalculateTaskRows(groupTasks)
                      tasksWithGlobalRows ==
                          [ i \in 1..Len(tasksWithLocalRows) |->
                              WithRow(tasksWithLocalRows[i],
                                      tasksWithLocalRows[i].row + afterHeader) ]
                      maxLocalRow ==
                          IF Len(tasksWithLocalRows) > 0
                          THEN SetMax({ tasksWithLocalRows[i].row :
                                          i \in 1..Len(tasksWithLocalRows) })
                          ELSE -1
                  IN  groupedRowsFrom(Tail(names), tasks, collapsed,
                        afterHeader + maxLocalRow + 1,
                        [ tasks  |-> acc.tasks \o tasksWithGlobalRows,
                          groups |-> Append(acc.groups,
                                       TaskGroup(groupName, tasksWithGlobalRows,
                                                 groupStartRow, groupRowCount(maxLocalRow), FALSE)) ])

\* calculateGroupedRows(groupTasksByProperty(tasks), collapsedGroups).
calculateGroupedRows(tasks, collapsed) ==
    groupedRowsFrom(sortGroupNames(groupKeys(tasks, {})), tasks, collapsed, 0,
                    [ tasks |-> << >>, groups |-> << >> ])

\* The useMemo of useGanttData (lines 59-91): tasks and groups for the
\* current entries and configuration.
ganttLayout(ents, groupBy, hierarchy, collapsed) ==
    LET rawTasks == entriesToTasks(ents, groupBy, hierarchy)
    IN  IF groupBy = NoValue
        THEN IF hierarchy # NoValue
             THEN [ tasks |-> rawTasks, groups |-> << >> ]
             ELSE [ tasks |-> ganttHelpersCalculateTaskRows(rawTasks), groups |-> << >> ]
        ELSE calculateGroupedRows(rawTasks, collapsed)

\* ------------------------------------------------------------------------
\* Drag and resize gestures: hooks useTaskDrag, useTaskResize (Gantt),
\* useMultiDayEventDrag, useEventResize, useTimedEventDrag (calendar),
\* usePropertyUpdate and propertyUpdater.ts
\* ------------------------------------------------------------------------
\* Math.round: the nearest integer, halves rounded up; num / den with den > 0.
MathRound(num, den) == (2 * num + den) \div (2 * den)

\* calculateDateFromDelta at the 'day' step: addDays(originalDate, unitsDelta).
calculateDateFromDeltaClamped(originalDate, pixelDelta, pixelsPerUnit) ==
    SetMax({ 1, originalDate + MathRound(pixelDelta, pixelsPerUnit) })

calculateDateFromDelta(originalDate, pixelDelta, pixelsPerUnit) ==
    originalDate + MathRound(pixelDelta, pixelsPerUnit)

\* updateProperty(file, propertyName, value): the request is in flight from
\* the call until processFrontMatter has written the value.
Request(propertyName, value) == [ prop |-> propertyName, value |-> value ]

\* processFrontMatter: frontmatter[propertyName] = value.
ApplyRequest(record, request) ==
    IF request.prop = "start" THEN [ record EXCEPT !.start = request.value ]
    ELSE [ record EXCEPT !.end = request.value ]

RemoveAt(seq, i) == SubSeq(seq, 1, i - 1) \o SubSeq(seq, i + 1, Len(seq))

\* No gesture: the refs of the hooks after mount or after mouse-up.
\* hadMovement is hadMovementRef, which outlives the gesture; issuedOnMove
\* records whether a mouse-move handler of this gesture called updateProperty.
IdleGesture(hadMovement) ==
    [ phase |-> "idle", kind |-> "none", handle |-> "none",
      originalStart |-> 0, originalEnd |-> 0, currentDelta |-> 0,
      hadMovement |-> hadMovement, issuedOnMove |-> FALSE ]

\* What a mouse-down handler captures: the dates of the rendered item.
StartedGesture(kind, handle) ==
    [ phase |-> "active", kind |-> kind, handle |-> handle,
      originalStart |-> store.start, originalEnd |-> store.end,
      currentDelta |-> 0, hadMovement |-> FALSE, issuedOnMove |-> FALSE ]

\* The pointer samples of the model, in pixels from the mouse-down point.
PixelSamples ==
    { -2 * PixelsPerUnit, -PixelsPerUnit, -(PixelsPerUnit \div 2), 0,
      PixelsPerUnit \div 2, PixelsPerUnit, 2 * PixelsPerUnit }

Abs(x) == IF x < 0 THEN -x ELSE x

InTimeline(d) == d \in 1..MaxDate

\* ------------------------------------------------------------------------
\* Specification of the Interval Packer: the caller hands it every list of
\* at most PackMaxTasks tasks with dates in 1..PackMaxDay, endDate >= startDate.
\* ------------------------------------------------------------------------
PackIds == << "t1", "t2", "t3", "t4", "t5" >>

packVars == << packIn, packOut >>

hierVars == << hierIn, hierOut >>

ganttVars == << entries, groupByProperty, hierarchyProperty, collapsedGroups,
                gantt >>

gestureVars == << store, inFlight, gesture >>

\* The variables of the utility functions, one group for each, and the
\* frame each of their specifications leaves alone.
timelineVars == << timelineTasks, timelineRange >>

TimelineIdle == timelineTasks = << >> /\ timelineRange = << >>

positionVars == << positionIn, positionOut >>

PositionIdle == positionIn = << >> /\ positionOut = << >>

roundTripVars == << roundTripIn, roundTripOut >>

RoundTripIdle == roundTripIn = << >> /\ roundTripOut = << >>

weekVars == << weekEvents, weekOut >>

WeekIdle == weekEvents = << >> /\ weekOut = << >>

labelVars == << labelIn, labelOut >>

LabelIdle == labelIn = << >> /\ labelOut = << >>

boardVars == << boardEntries, boardDrop >>

BoardIdle == boardEntries = << >> /\ boardDrop = << >>

collapseVars == << collapseConfig, collapseView >>

CollapseIdle == collapseConfig = << >> /\ collapseView = << >>

clickVars == << clickRefs, clickLog >>

ClickIdle == clickRefs = << >> /\ clickLog = << >>

markersVars == << markersIn, markersOut >>

MarkersIdle == markersIn = << >> /\ markersOut = << >>

gridVars == << gridMonth, gridEvents, gridOut >>

GridIdle == gridMonth = << >> /\ gridEvents = << >> /\ gridOut = << >>

stepDragVars == << stepDragIn, stepDragOut >>

StepDragIdle == stepDragIn = << >> /\ stepDragOut = << >>

utilVars == << timelineVars, positionVars, roundTripVars, weekVars, labelVars, boardVars, collapseVars, clickVars, markersVars, gridVars, stepDragVars >>

UtilIdle == TimelineIdle /\ PositionIdle /\ RoundTripIdle /\ WeekIdle /\ LabelIdle /\ BoardIdle /\ CollapseIdle /\ ClickIdle /\ MarkersIdle /\ GridIdle /\ StepDragIdle

\* (end of the utility frames)

vars == << packVars, hierVars, ganttVars, gestureVars, utilVars >>

PackIdle == packIn = << >> /\ packOut = << >>

HierIdle == hierIn = << >> /\ hierOut = << >>

GestureIdle ==
    /\ store = [ start |-> 1, end |-> 1 ]
    /\ inFlight = << >>
    /\ gesture = IdleGesture(FALSE)

GanttIdle ==
    /\ entries = << >>
    /\ groupByProperty = NoValue
    /\ hierarchyProperty = "Parent"
    /\ collapsedGroups = {}
    /\ gantt = [ tasks |-> << >>, groups |-> << >> ]

\* Frames and idle states of the utility specifications.
TimelineFrame ==
    UNCHANGED << packVars, hierVars, ganttVars, gestureVars, positionVars, roundTripVars, weekVars, labelVars, boardVars, collapseVars, clickVars, markersVars, gridVars, stepDragVars >>

TimelineOthersIdle ==
    /\ PackIdle /\ HierIdle /\ GanttIdle /\ GestureIdle
    /\ PositionIdle
    /\ RoundTripIdle
    /\ WeekIdle
    /\ LabelIdle
    /\ BoardIdle
    /\ CollapseIdle
    /\ ClickIdle
    /\ MarkersIdle
    /\ GridIdle
    /\ StepDragIdle

PositionFrame ==
    UNCHANGED << packVars, hierVars, ganttVars, gestureVars, timelineVars, roundTripVars, weekVars, labelVars, boardVars, collapseVars, clickVars, markersVars, gridVars, stepDragVars >>

PositionOthersIdle ==
    /\ PackIdle /\ HierIdle /\ GanttIdle /\ GestureIdle
    /\ TimelineIdle
    /\ RoundTripIdle
    /\ WeekIdle
    /\ LabelIdle
    /\ BoardIdle
    /\ CollapseIdle
    /\ ClickIdle
    /\ MarkersIdle
    /\ GridIdle
    /\ StepDragIdle

RoundTripFrame ==
    UNCHANGED << packVars, hierVars, ganttVars, gestureVars, timelineVars, positionVars, weekVars, labelVars, boardVars, collapseVars, clickVars, markersVars, gridVars, stepDragVars >>

RoundTripOthersIdle ==
    /\ PackIdle /\ HierIdle /\ GanttIdle /\ GestureIdle
    /\ TimelineIdle
    /\ PositionIdle
    /\ WeekIdle
    /\ LabelIdle
    /\ BoardIdle
    /\ CollapseIdle
    /\ ClickIdle
    /\ MarkersIdle
    /\ GridIdle
    /\ StepDragIdle

WeekFrame ==
    UNCHANGED << packVars, hierVars, ganttVars, gestureVars, timelineVars, positionVars, roundTripVars, labelVars, boardVars, collapseVars, clickVars, markersVars, gridVars, stepDragVars >>

WeekOthersIdle ==
    /\ PackIdle /\ HierIdle /\ GanttIdle /\ GestureIdle
    /\ TimelineIdle
    /\ PositionIdle
    /\ RoundTripIdle
    /\ LabelIdle
    /\ BoardIdle
    /\ CollapseIdle
    /\ ClickIdle
    /\ MarkersIdle
    /\ GridIdle
    /\ StepDragIdle

LabelFrame ==
    UNCHANGED << packVars, hierVars, ganttVars, gestureVars, timelineVars, positionVars, roundTripVars, weekVars, boardVars, collapseVars, clickVars, markersVars, gridVars, stepDragVars >>

LabelOthersIdle ==
    /\ PackIdle /\ HierIdle /\ GanttIdle /\ GestureIdle
    /\ TimelineIdle
    /\ PositionIdle
    /\ RoundTripIdle
    /\ WeekIdle
    /\ BoardIdle
    /\ CollapseIdle
    /\ ClickIdle
    /\ MarkersIdle
    /\ GridIdle
    /\ StepDragIdle

BoardFrame ==
    UNCHANGED << packVars, hierVars, ganttVars, gestureVars, timelineVars, positionVars, roundTripVars, weekVars, labelVars, collapseVars, clickVars, markersVars, gridVars, stepDragVars >>

BoardOthersIdle ==
    /\ PackIdle /\ HierIdle /\ GanttIdle /\ GestureIdle
    /\ TimelineIdle
    /\ PositionIdle
    /\ RoundTripIdle
    /\ WeekIdle
    /\ LabelIdle
    /\ CollapseIdle
    /\ ClickIdle
    /\ MarkersIdle
    /\ GridIdle
    /\ StepDragIdle

CollapseFrame ==
    UNCHANGED << packVars, hierVars, ganttVars, gestureVars, timelineVars, positionVars, roundTripVars, weekVars, labelVars, boardVars, clickVars, markersVars, gridVars, stepDragVars >>

CollapseOthersIdle ==
    /\ PackIdle /\ HierIdle /\ GanttIdle /\ GestureIdle
    /\ TimelineIdle
    /\ PositionIdle
    /\ RoundTripIdle
    /\ WeekIdle
    /\ LabelIdle
    /\ BoardIdle
    /\ ClickIdle
    /\ MarkersIdle
    /\ GridIdle
    /\ StepDragIdle

ClickFrame ==
    UNCHANGED << packVars, hierVars, ganttVars, gestureVars, timelineVars, positionVars, roundTripVars, weekVars, labelVars, boardVars, collapseVars, markersVars, gridVars, stepDragVars >>

ClickOthersIdle ==
    /\ PackIdle /\ HierIdle /\ GanttIdle /\ GestureIdle
    /\ TimelineIdle
    /\ PositionIdle
    /\ RoundTripIdle
    /\ WeekIdle
    /\ LabelIdle
    /\ BoardIdle
    /\ CollapseIdle
    /\ MarkersIdle
    /\ GridIdle
    /\ StepDragIdle

MarkersFrame ==
    UNCHANGED << packVars, hierVars, ganttVars, gestureVars, timelineVars, positionVars, roundTripVars, weekVars, labelVars, boardVars, collapseVars, clickVars, gridVars, stepDragVars >>

MarkersOthersIdle ==
    /\ PackIdle /\ HierIdle /\ GanttIdle /\ GestureIdle
    /\ TimelineIdle
    /\ PositionIdle
    /\ RoundTripIdle
    /\ WeekIdle
    /\ LabelIdle
    /\ BoardIdle
    /\ CollapseIdle
    /\ ClickIdle
    /\ GridIdle
    /\ StepDragIdle

GridFrame ==
    UNCHANGED << packVars, hierVars, ganttVars, gestureVars, timelineVars, positionVars, roundTripVars, weekVars, labelVars, boardVars, collapseVars, clickVars, markersVars, stepDragVars >>

GridOthersIdle ==
    /\ PackIdle /\ HierIdle /\ GanttIdle /\ GestureIdle
    /\ TimelineIdle
    /\ PositionIdle
    /\ RoundTripIdle
    /\ WeekIdle
    /\ LabelIdle
    /\ BoardIdle
    /\ CollapseIdle
    /\ ClickIdle
    /\ MarkersIdle
    /\ StepDragIdle

StepDragFrame ==
    UNCHANGED << packVars, hierVars, ganttVars, gestureVars, timelineVars, positionVars, roundTripVars, weekVars, labelVars, boardVars, collapseVars, clickVars, markersVars, gridVars >>

StepDragOthersIdle ==
    /\ PackIdle /\ HierIdle /\ GanttIdle /\ GestureIdle
    /\ TimelineIdle
    /\ PositionIdle
    /\ RoundTripIdle
    /\ WeekIdle
    /\ LabelIdle
    /\ BoardIdle
    /\ CollapseIdle
    /\ ClickIdle
    /\ MarkersIdle
    /\ GridIdle

\* (end of the frames of the utility specifications)

PackInit ==
    /\ packIn = << >>
    /\ packOut = calculateTaskRows(<< >>)
    /\ HierIdle
    /\ GanttIdle
    /\ GestureIdle
    /\ UtilIdle

\* One more task in the input, then the packer runs on the whole list.
PackAdd ==
    /\ Len(packIn) < PackMaxTasks
    /\ \E s \in 1..PackMaxDay : \E e \in s..PackMaxDay :
          LET n == Len(packIn) + 1
              t == Task(PackIds[n], PackIds[n], s, e, n - 1, NoValue, NoValue)
          IN  /\ packIn' = Append(packIn, t)
              /\ packOut' = calculateTaskRows(packIn')
    /\ UNCHANGED << hierVars, ganttVars, gestureVars, utilVars >>

PackNext == PackAdd

SpecPack == PackInit /\ [][PackNext]_vars

\* ------------------------------------------------------------------------
\* Specification of the Hierarchy Sorter: the records Epic, Story and Task
\* (id epic, story, task) arrive in any order, each with any parent
\* reference (none, a name that is no record, an id, or a title) and any
\* start date in 1..HierMaxStart; every arrival re-runs the sorter on the
\* whole list.  Each record lasts one day.
\* ------------------------------------------------------------------------
HierIds == { "epic", "story", "task" }

HierTitle(id) ==
    CASE id = "epic" -> "Epic" [] id = "story" -> "Story" [] OTHER -> "Task"

HierParentRefs == { NoValue, "missing", "epic", "story", "task", "Epic" }

IdsOf(tasks) == { tasks[i].id : i \in 1..Len(tasks) }

HierInit ==
    /\ hierIn = << >>
    /\ hierOut = sortTasksByHierarchy(<< >>)
    /\ PackIdle
    /\ GanttIdle
    /\ GestureIdle
    /\ UtilIdle

HierAdd ==
    /\ \E id \in HierIds \ IdsOf(hierIn) : \E p \in HierParentRefs :
       \E s \in 1..HierMaxStart :
          LET t == Task(id, HierTitle(id), s, s, Len(hierIn), NoValue, p)
          IN  /\ hierIn' = Append(hierIn, t)
              /\ hierOut' = sortTasksByHierarchy(hierIn')
    /\ UNCHANGED << packVars, ganttVars, gestureVars, utilVars >>

HierNext == HierAdd

SpecHier == HierInit /\ [][HierNext]_vars

\* ------------------------------------------------------------------------
\* Specification of the Gantt pipeline (useGanttData): records n1, n2, n3
\* arrive one by one with dates in 1..GanttMaxDay (end >= start), a group
\* value (Alpha or none); n2 may name n1 as its parent;
\* the group-by and hierarchy properties are switched on and off and
\* groups are collapsed and expanded.  Every step ends with the memoised
\* layout recomputed, as the re-render does.
\* ------------------------------------------------------------------------
GanttIds == << "n1", "n2", "n3" >>

GanttGroupValues == { NoValue, "Alpha" }

GanttParentValues(id) == IF id = "n2" THEN { NoValue, "n1" } ELSE { NoValue }

Relayout ==
    gantt' = ganttLayout(entries', groupByProperty', hierarchyProperty',
                         collapsedGroups')

GanttInit ==
    /\ entries = << >>
    /\ groupByProperty = NoValue
    /\ hierarchyProperty = "Parent"
    /\ collapsedGroups = {}
    /\ gantt = ganttLayout(<< >>, NoValue, "Parent", {})
    /\ PackIdle
    /\ HierIdle
    /\ GestureIdle
    /\ UtilIdle

\* onDataUpdated: the query result has one more record.
GanttDataUpdated ==
    /\ Len(entries) < Len(GanttIds)
    /\ \E s \in 1..GanttMaxDay : \E e \in s..GanttMaxDay :
       \E g \in GanttGroupValues :
       \E p \in GanttParentValues(GanttIds[Len(entries) + 1]) :
          LET id == GanttIds[Len(entries) + 1]
          IN  entries' = Append(entries, Entry(id, id, s, e, g, p))
    /\ UNCHANGED << groupByProperty, hierarchyProperty, collapsedGroups >>
    /\ Relayout
    /\ UNCHANGED << packVars, hierVars, gestureVars, utilVars >>

\* setGroupByProperty.
SetGroupByProperty ==
    /\ \E p \in { NoValue, "status" } :
          /\ p # groupByProperty
          /\ groupByProperty' = p
    /\ UNCHANGED << entries, hierarchyProperty, collapsedGroups >>
    /\ Relayout
    /\ UNCHANGED << packVars, hierVars, gestureVars, utilVars >>

\* setHierarchyProperty.
SetHierarchyProperty ==
    /\ \E p \in { NoValue, "Parent" } :
          /\ p # hierarchyProperty
          /\ hierarchyProperty' = p
    /\ UNCHANGED << entries, groupByProperty, collapsedGroups >>
    /\ Relayout
    /\ UNCHANGED << packVars, hierVars, gestureVars, utilVars >>

\* toggleGroupCollapse(groupName), from the header of a displayed group.
ToggleGroupCollapse ==
    /\ \E k \in 1..Len(gantt.groups) :
          LET groupName == gantt.groups[k].name
          IN  collapsedGroups' =
                  IF groupName \in collapsedGroups
                  THEN collapsedGroups \ { groupName }
                  ELSE collapsedGroups \cup { groupName }
    /\ UNCHANGED << entries, groupByProperty, hierarchyProperty >>
    /\ Relayout
    /\ UNCHANGED << packVars, hierVars, gestureVars, utilVars >>

GanttNext ==
    \/ GanttDataUpdated
    \/ SetGroupByProperty
    \/ SetHierarchyProperty
    \/ ToggleGroupCollapse

SpecGantt == GanttInit /\ [][GanttNext]_vars

\* ------------------------------------------------------------------------
\* Specifications of the gestures on one record.  The record starts with
\* any dates 1 <= start <= end <= MaxDate.  A mouse-down captures the dates
\* the view shows (the store's); pointer samples are PixelSamples, kept to
\* positions whose dates stay inside 1..MaxDate; at most MaxInFlight
\* requests are outstanding; a request in flight completes at any time.
\* The Gantt chart is ungrouped (no group drop on mouse-up) and the calendar
\* pointer stays in its week row.
\* ------------------------------------------------------------------------
GestureInit ==
    /\ \E s \in 1..MaxDate : \E e \in s..MaxDate : store = [ start |-> s, end |-> e ]
    /\ inFlight = << >>
    /\ gesture = IdleGesture(FALSE)
    /\ PackIdle
    /\ HierIdle
    /\ GanttIdle
    /\ UtilIdle

OtherVarsUnchanged == UNCHANGED << packVars, hierVars, ganttVars, utilVars >>

\* A request completes: processFrontMatter writes the value.
CompleteUpdate ==
    /\ \E i \in 1..Len(inFlight) :
          /\ store' = ApplyRequest(store, inFlight[i])
          /\ inFlight' = RemoveAt(inFlight, i)
    /\ UNCHANGED gesture
    /\ OtherVarsUnchanged

\* useTaskDrag.handleDragStart.
GanttDragStart ==
    /\ gesture.phase = "idle"
    /\ gesture' = StartedGesture("ganttDrag", "none")
    /\ UNCHANGED << store, inFlight >>
    /\ OtherVarsUnchanged

\* useTaskDrag handleMouseMove: both dates are written on every sample.
GanttDragMove ==
    /\ gesture.phase = "active" /\ gesture.kind = "ganttDrag"
    /\ Len(inFlight) + 2 <= MaxInFlight
    /\ \E deltaX \in PixelSamples :
          LET newStartDate == calculateDateFromDelta(gesture.originalStart, deltaX, PixelsPerUnit)
              newEndDate == calculateDateFromDelta(gesture.originalEnd, deltaX, PixelsPerUnit)
          IN  /\ InTimeline(newStartDate) /\ InTimeline(newEndDate)
              /\ gesture' = [ gesture EXCEPT
                     !.hadMovement = @ \/ Abs(deltaX) > 3,
                     !.currentDelta = MathRound(deltaX, PixelsPerUnit),
                     !.issuedOnMove = TRUE ]
              /\ inFlight' = inFlight \o << Request("start", newStartDate),
                                            Request("end", newEndDate) >>
    /\ UNCHANGED store
    /\ OtherVarsUnchanged

\* useTaskDrag handleMouseUp (no groups: nothing is written).
GanttDragEnd ==
    /\ gesture.phase = "active" /\ gesture.kind = "ganttDrag"
    /\ gesture' = IdleGesture(gesture.hadMovement)
    /\ UNCHANGED << store, inFlight >>
    /\ OtherVarsUnchanged

\* useTaskResize.handleResizeStart(handle).
GanttResizeStart ==
    /\ gesture.phase = "idle"
    /\ \E handle \in { "start", "end" } : gesture' = StartedGesture("ganttResize", handle)
    /\ UNCHANGED << store, inFlight >>
    /\ OtherVarsUnchanged

\* The validation of useTaskResize handleMouseMove (lines 96-103).
GanttResizeAllowed(handle, newDate, originalDate, taskStart, taskEnd) ==
    /\ newDate # originalDate
    /\ ~(handle = "start" /\ newDate > taskEnd)
    /\ ~(handle = "end" /\ newDate < taskStart)

\* useTaskResize handleMouseMove: an allowed date is written at once.
GanttResizeMove ==
    /\ gesture.phase = "active" /\ gesture.kind = "ganttResize"
    /\ \E deltaX \in PixelSamples :
          LET originalDate == IF gesture.handle = "start" THEN gesture.originalStart
                              ELSE gesture.originalEnd
              newDate == calculateDateFromDelta(originalDate, deltaX, PixelsPerUnit)
              allowed == GanttResizeAllowed(gesture.handle, newDate, originalDate,
                                            gesture.originalStart, gesture.originalEnd)
          IN  /\ InTimeline(newDate)
              /\ allowed => Len(inFlight) + 1 <= MaxInFlight
              /\ gesture' = [ gesture EXCEPT
                     !.hadMovement = @ \/ Abs(deltaX) > 3,
                     !.currentDelta = MathRound(deltaX, PixelsPerUnit),
                     !.issuedOnMove = @ \/ allowed ]
              /\ inFlight' = IF allowed
                             THEN Append(inFlight, Request(gesture.handle, newDate))
                             ELSE inFlight
    /\ UNCHANGED store
    /\ OtherVarsUnchanged

\* useTaskResize handleMouseUp.
GanttResizeEnd ==
    /\ gesture.phase = "active" /\ gesture.kind = "ganttResize"
    /\ gesture' = IdleGesture(gesture.hadMovement)
    /\ UNCHANGED << store, inFlight >>
    /\ OtherVarsUnchanged

GanttGestureNext ==
    \/ CompleteUpdate
    \/ GanttDragStart
    \/ GanttDragMove
    \/ GanttDragEnd
    \/ GanttResizeStart
    \/ GanttResizeMove
    \/ GanttResizeEnd

SpecGanttGesture == GestureInit /\ [][GanttGestureNext]_vars

\* useMultiDayEventDrag.handleDragStart.
CalDragStart ==
    /\ gesture.phase = "idle"
    /\ gesture' = StartedGesture("calDrag", "none")
    /\ UNCHANGED << store, inFlight >>
    /\ OtherVarsUnchanged

\* The mouse-move handlers of the calendar hooks: they keep the delta and
\* the movement flag for the preview and write nothing.
CalendarMove(kind) ==
    /\ gesture.phase = "active" /\ gesture.kind = kind
    /\ \E deltaX \in PixelSamples :
          LET colDelta == MathRound(deltaX, PixelsPerUnit)
          IN  /\ InTimeline(gesture.originalStart + colDelta)
              /\ InTimeline(gesture.originalEnd + colDelta)
              /\ gesture' = [ gesture EXCEPT
                     !.currentDelta = colDelta,
                     !.hadMovement = @ \/ Abs(deltaX) > 5 ]
    /\ UNCHANGED << store, inFlight >>
    /\ OtherVarsUnchanged

CalDragMove == CalendarMove("calDrag")

\* useMultiDayEventDrag handleMouseUp: two requests, neither awaited.
CalDragEnd ==
    /\ gesture.phase = "active" /\ gesture.kind = "calDrag"
    /\ IF gesture.currentDelta # 0
       THEN /\ Len(inFlight) + 2 <= MaxInFlight
            /\ inFlight' = inFlight \o
                  << Request("start", gesture.originalStart + gesture.currentDelta),
                     Request("end", gesture.originalEnd + gesture.currentDelta) >>
       ELSE inFlight' = inFlight
    /\ gesture' = IdleGesture(gesture.hadMovement)
    /\ UNCHANGED store
    /\ OtherVarsUnchanged

\* useEventResize.handleResizeStart(handle).
CalResizeStart ==
    /\ gesture.phase = "idle"
    /\ \E handle \in { "start", "end" } : gesture' = StartedGesture("calResize", handle)
    /\ UNCHANGED << store, inFlight >>
    /\ OtherVarsUnchanged

CalResizeMove == CalendarMove("calResize")

\* The request useEventResize handleMouseUp issues, << >> when it issues none.
CalResizeCommit(handle, originalStartDate, originalEndDate, currentDeltaDays) ==
    IF currentDeltaDays = 0 THEN << >>
    ELSE IF handle = "start"
         THEN IF originalStartDate + currentDeltaDays <= originalEndDate
              THEN << Request("start", originalStartDate + currentDeltaDays) >>
              ELSE << >>
         ELSE IF originalEndDate + currentDeltaDays >= originalStartDate
              THEN << Request("end", originalEndDate + currentDeltaDays) >>
              ELSE << >>

\* useEventResize handleMouseUp.
CalResizeEnd ==
    /\ gesture.phase = "active" /\ gesture.kind = "calResize"
    /\ LET commit == CalResizeCommit(gesture.handle, gesture.originalStart,
                                     gesture.originalEnd, gesture.currentDelta)
       IN  /\ Len(inFlight) + Len(commit) <= MaxInFlight
           /\ inFlight' = inFlight \o commit
    /\ gesture' = IdleGesture(gesture.hadMovement)
    /\ UNCHANGED store
    /\ OtherVarsUnchanged

\* useTimedEventDrag.handleDragStart (dates in snap intervals).
TimedDragStart ==
    /\ gesture.phase = "idle"
    /\ gesture' = StartedGesture("timedDrag", "none")
    /\ UNCHANGED << store, inFlight >>
    /\ OtherVarsUnchanged

TimedDragMove == CalendarMove("timedDrag")

\* useTimedEventDrag handleMouseUp: the end is the new start plus the duration.
TimedDragEnd ==
    /\ gesture.phase = "active" /\ gesture.kind = "timedDrag"
    /\ IF gesture.currentDelta # 0
       THEN LET duration == gesture.originalEnd - gesture.originalStart
                newStartDate == gesture.originalStart + gesture.currentDelta
            IN  /\ Len(inFlight) + 2 <= MaxInFlight
                /\ inFlight' = inFlight \o << Request("start", newStartDate),
                                              Request("end", newStartDate + duration) >>
       ELSE inFlight' = inFlight
    /\ gesture' = IdleGesture(gesture.hadMovement)
    /\ UNCHANGED store
    /\ OtherVarsUnchanged

CalGestureNext ==
    \/ CompleteUpdate
    \/ CalDragStart
    \/ CalDragMove
    \/ CalDragEnd
    \/ CalResizeStart
    \/ CalResizeMove
    \/ CalResizeEnd
    \/ TimedDragStart
    \/ TimedDragMove
    \/ TimedDragEnd

SpecCalGesture == GestureInit /\ [][CalGestureNext]_vars

\* ------------------------------------------------------------------------
\* C2
\* ------------------------------------------------------------------------
RowsUsed(tasks) == { tasks[i].row : i \in 1..Len(tasks) }

\* The largest number of tasks whose inclusive ranges contain one common day.
MaxOverlap(tasks) ==
    SetMax({ Cardinality({ i \in 1..Len(tasks) :
                 tasks[i].startDate <= d /\ d <= tasks[i].endDate })
             : d \in 1..(PackMaxDay + 1) })

CountId(out, id) == Cardinality({ j \in 1..Len(out) : out[j].id = id })

OutIds(out) == [ j \in 1..Len(out) |-> out[j].id ]

\* The task reached from task number i by following n resolved parent links,
\* or 0 when a link does not resolve.
RECURSIVE Ancestor(_, _, _)
Ancestor(tasks, i, n) ==
    IF n = 0 THEN i
    ELSE IF ~HasResolvedParent(tasks, tasks[i]) THEN 0
    ELSE LET p == taskMapGet(tasks, tasks[i].parentId)
         IN  Ancestor(tasks, CHOOSE k \in 1..Len(tasks) : tasks[k] = p, n - 1)

OnCycle(tasks, i) == \E n \in 1..Len(tasks) : Ancestor(tasks, i, n) = i

InputHasCycle(tasks) == \E i \in 1..Len(tasks) : OnCycle(tasks, i)

\* C3: on input whose parent references form a cycle (an item naming itself
\* included) the sorter returns every input item exactly once.
C3_CycleSafe ==
    InputHasCycle(hierIn) =>
        \A i \in 1..Len(hierIn) : CountId(hierOut, hierIn[i].id) = 1

\* Epic (no parent), Story (parent Epic), Task (parent Story), in any order.
IsEpicChain(tasks) ==
    /\ Len(tasks) = 3
    /\ \A i \in 1..3 :
          tasks[i].parentId = (CASE tasks[i].id = "epic" -> NoValue
                                 [] tasks[i].id = "story" -> "epic"
                                 [] OTHER -> "story")

IsDangling(tasks, task) ==
    task.parentId # NoValue /\ ~taskMapHas(tasks, task.parentId)

\* Positions of the output: the synthetic entry, the true orphans, the trees.
VirtualAt(out) == { j \in 1..Len(out) : IsVirtual(out[j]) }

OrphansAt(tasks, out) ==
    { j \in 1..Len(out) : ~IsVirtual(out[j]) /\ IsTrueOrphan(tasks, out[j]) }

TreesAt(tasks, out) == (1..Len(out)) \ (VirtualAt(out) \cup OrphansAt(tasks, out))

TrueOrphanIds(tasks) ==
    { tasks[i].id : i \in { k \in 1..Len(tasks) : IsTrueOrphan(tasks, tasks[k]) } }

\* Whenever a true orphan exists: exactly one synthetic entry, immediately
\* before the orphans, which are the last entries.
OrphansEntryPlaced(tasks, out) ==
    TrueOrphanIds(tasks) # {} =>
        /\ Cardinality(VirtualAt(out)) = 1
        /\ \A v \in VirtualAt(out) :
              /\ OrphansAt(tasks, out) = (v + 1)..Len(out)
              /\ { out[j].id : j \in (v + 1)..Len(out) } = TrueOrphanIds(tasks)
              /\ Len(out) - v = Cardinality(TrueOrphanIds(tasks))

IsOrphanThenEpic(tasks) ==
    /\ Len(tasks) = 2
    /\ tasks[1].id # "epic" /\ tasks[1].parentId = "missing"
    /\ tasks[2].id = "epic" /\ tasks[2].parentId = NoValue

\* C6: the sorter keeps all tasks and returns exactly as many entries as it
\* was given: for [Orphan (missing parent), Epic] it returns exactly 2
\* entries, Epic first and Orphan last.
C6_KeepsAllTasks ==
    IsOrphanThenEpic(hierIn) =>
        /\ Len(hierOut) = Len(hierIn)
        /\ hierOut[1].id = "epic"
        /\ hierOut[Len(hierOut)].id = hierIn[1].id

\* ------------------------------------------------------------------------
\* C1: the layout the Gantt pipeline outputs
\* ------------------------------------------------------------------------
\* C1: no two visible items on the same row have overlapping inclusive date
\* ranges, and no visible item is on a group's header row.
C1_OverlapFreeLayout ==
    /\ \A i, j \in 1..Len(gantt.tasks) :
          (i # j /\ gantt.tasks[i].row = gantt.tasks[j].row) =>
              ~tasksOverlap(gantt.tasks[i], gantt.tasks[j])
    /\ \A i \in 1..Len(gantt.tasks) : \A k \in 1..Len(gantt.groups) :
          gantt.tasks[i].row # gantt.groups[k].startRow

\* Grouped layout with a collapsed group above an expanded group that holds
\* two overlapping items.
C1_Witness ==
    /\ Len(gantt.groups) = 2
    /\ gantt.groups[1].isCollapsed /\ ~gantt.groups[2].isCollapsed
    /\ \E i, j \in 1..Len(gantt.tasks) :
          /\ i # j
          /\ tasksOverlap(gantt.tasks[i], gantt.tasks[j])
          /\ gantt.tasks[i].group = gantt.tasks[j].group

\* ------------------------------------------------------------------------
\* C7 (SpecGanttGesture).  While a gesture is active no pointer-move sample
\* issues a property-update request; requests leave only at pointer-up,
\* and then at most one for each date property of the item.
\* ------------------------------------------------------------------------
PointerMoveStep == gesture.phase = "active" /\ gesture'.phase = "active"

PointerUpStep == gesture.phase = "active" /\ gesture'.phase = "idle"

IssuedInStep == SubSeq(inFlight', Len(inFlight) + 1, Len(inFlight'))

C7_CommitOnlyAtPointerUp ==
    [][ /\ PointerMoveStep => Len(inFlight') <= Len(inFlight)
        /\ PointerUpStep =>
              \A i, j \in 1..Len(IssuedInStep) :
                  i # j => IssuedInStep[i].prop # IssuedInStep[j].prop
      ]_vars

\* ------------------------------------------------------------------------
\* C8 (SpecCalGesture).  Never are two property-update requests for the
\* record in flight at the same time.
\* ------------------------------------------------------------------------
C8_OneRequestInFlight == Len(inFlight) <= 1

\* ------------------------------------------------------------------------
\* C9 (SpecGanttGesture).  A resize gesture released with the end handle on
\* a date before the item's start date has issued no property-update
\* request, so the stored end date stays what it was.
\* ------------------------------------------------------------------------
EndHandleReleasedBeforeStart ==
    /\ PointerUpStep
    /\ gesture.kind \in { "ganttResize", "calResize" }
    /\ gesture.handle = "end"
    /\ gesture.originalEnd + gesture.currentDelta < gesture.originalStart

C9_RejectedResizeWritesNothing ==
    [][ EndHandleReleasedBeforeStart =>
            ~gesture.issuedOnMove /\ inFlight' = inFlight ]_vars

\* ------------------------------------------------------------------------
\* C10 (SpecCalGesture).  In every reachable state the stored end date is
\* not before the stored start date.
\* ------------------------------------------------------------------------
C10_EndNotBeforeStart == store.end >= store.start

\* ------------------------------------------------------------------------
\* C11 (SpecGantt).  In a grouped layout the groups occupy contiguous,
\* disjoint row bands: the first starts at row 0, each later one starts
\* where the previous ends, a collapsed group has rowCount 1, an expanded
\* group has rowCount 1 + the number of rows its members occupy, and every
\* visible member's row lies strictly between its group's startRow and
\* startRow + rowCount.
\* ------------------------------------------------------------------------
MemberRows(group) == { group.tasks[i].row : i \in 1..Len(group.tasks) }

C11_GroupBands ==
    groupByProperty # NoValue =>
        \A k \in 1..Len(gantt.groups) :
            LET group == gantt.groups[k]
            IN  /\ group.startRow =
                      IF k = 1 THEN 0
                      ELSE gantt.groups[k - 1].startRow + gantt.groups[k - 1].rowCount
                /\ group.isCollapsed => group.rowCount = 1
                /\ ~group.isCollapsed =>
                      /\ group.rowCount = 1 + Cardinality(MemberRows(group))
                      /\ \A r \in MemberRows(group) :
                            group.startRow < r /\ r < group.startRow + group.rowCount

\* Three groups, the first expanded with a member, one of them collapsed.
C11_Witness ==
    /\ groupByProperty # NoValue
    /\ Len(gantt.groups) >= 2
    /\ ~gantt.groups[1].isCollapsed /\ Len(gantt.groups[1].tasks) >= 1
    /\ \E k \in 2..Len(gantt.groups) : gantt.groups[k].isCollapsed
    /\ \E k \in 2..Len(gantt.groups) :
          ~gantt.groups[k].isCollapsed /\ Len(gantt.groups[k].tasks) >= 1

\* ------------------------------------------------------------------------
\* C12 (SpecGantt).  Running the Group Aggregator again on the same items
\* and the same collapsed set gives the same rows, groups, startRow and
\* rowCount: a second run on the input reproduces the layout in the state,
\* and so does a run on the items as the first run returned them (with the
\* rows and groups it assigned).
\* ------------------------------------------------------------------------
RECURSIVE itemsOfGroups(_)
itemsOfGroups(groups) ==
    IF groups = << >> THEN << >>
    ELSE Head(groups).tasks \o itemsOfGroups(Tail(groups))

C12_AggregatorIdempotent ==
    groupByProperty # NoValue =>
        /\ calculateGroupedRows(
               entriesToTasks(entries, groupByProperty, hierarchyProperty),
               collapsedGroups) = gantt
        /\ calculateGroupedRows(itemsOfGroups(gantt.groups), collapsedGroups) = gantt

\* Two groups, one of them collapsed, the other with two members whose
\* order in the input is not their order by start date.
C12_Witness ==
    /\ groupByProperty # NoValue
    /\ Len(gantt.groups) >= 2
    /\ \E k \in 1..Len(gantt.groups) : gantt.groups[k].isCollapsed
    /\ \E i, j \in 1..Len(entries) :
          /\ i < j
          /\ entries[i].start > entries[j].start
          /\ \E k \in 1..Len(gantt.groups) :
                /\ ~gantt.groups[k].isCollapsed
                /\ { entries[i].id, entries[j].id } \subseteq
                       { gantt.groups[k].tasks[n].id : n \in 1..Len(gantt.groups[k].tasks) }

\* ------------------------------------------------------------------------
\* C13 (SpecGantt).  The groups are output in alphabetical order of name,
\* except that "No Group", when present, is the last group.
\* ------------------------------------------------------------------------
GroupNameAt(k) == gantt.groups[k].name

C13_GroupOrder ==
    groupByProperty # NoValue =>
        \A k, l \in 1..Len(gantt.groups) :
            k < l =>
                /\ GroupNameAt(k) # "No Group"
                /\ GroupNameAt(l) = "No Group"
                       \/ localeCompare(GroupNameAt(k), GroupNameAt(l)) < 0

\* Alpha, Orphans and No Group are all present, and "No Group" (which sorts
\* before "Orphans" alphabetically) is last; the first record of the input
\* is not in the first group.
C13_Witness ==
    /\ groupByProperty # NoValue
    /\ Len(gantt.groups) = 3
    /\ GroupNameAt(1) = "Alpha" /\ GroupNameAt(2) = "Orphans"
    /\ GroupNameAt(3) = "No Group"
    /\ entries[1].groupRaw = NoValue

\* ------------------------------------------------------------------------
\* Dates.  An instant is a number of ticks since the start of 1 January of
\* a common year, TicksPerDay ticks to the day; the last tick of a day
\* stands for 23:59:59.999.  Days are numbered from 1.
\* ------------------------------------------------------------------------
MonthLength(m) ==
    CASE m = 2 -> 28
      [] m \in { 4, 6, 9, 11 } -> 30
      [] OTHER -> 31

RECURSIVE MonthFirstDay(_)
MonthFirstDay(m) == IF m = 1 THEN 1 ELSE MonthFirstDay(m - 1) + MonthLength(m - 1)

MonthLastDay(m) == MonthFirstDay(m) + MonthLength(m) - 1

DayOf(instant) == (instant \div TicksPerDay) + 1

startOfDay(day) == (day - 1) * TicksPerDay

endOfDay(day) == day * TicksPerDay - 1

RECURSIVE MonthOfDayFrom(_, _)
MonthOfDayFrom(day, m) == IF day <= MonthLastDay(m) THEN m ELSE MonthOfDayFrom(day, m + 1)

MonthOf(instant) == MonthOfDayFrom(DayOf(instant), 1)

\* date-fns startOfMonth and endOfMonth.
startOfMonth(instant) == startOfDay(MonthFirstDay(MonthOf(instant)))

endOfMonthAtMidnight(instant) == startOfDay(MonthLastDay(MonthOf(instant)))

endOfMonth(instant) == endOfDay(MonthLastDay(MonthOf(instant)))

\* date-fns differenceInDays: the number of full days, truncated toward 0.
differenceInDays(later, earlier) ==
    IF later >= earlier THEN (later - earlier) \div TicksPerDay
    ELSE -((earlier - later) \div TicksPerDay)

\* dateCalculations.ts calculateTimelineRange; now is new Date().
calculateTimelineRange(tasks, now) ==
    IF Len(tasks) = 0 THEN << startOfMonth(now), endOfMonth(now) >>
    ELSE LET allDates == { tasks[i].startDate : i \in 1..Len(tasks) }
                         \cup { tasks[i].endDate : i \in 1..Len(tasks) }
         IN  << startOfMonth(SetMin(allDates)), endOfMonth(SetMax(allDates)) >>

\* ------------------------------------------------------------------------
\* Specification of the timeline range: tasks a and b arrive one by one,
\* each with a start and an end instant on the first or last day of one of
\* the first TimelineMonths months, at any tick of the day; the range is
\* recomputed on every arrival.  The chart opens empty at any such instant.
\* ------------------------------------------------------------------------
TimelineIds == << "a", "b" >>

TimelineInstants ==
    { startOfDay(day) + tick :
        day \in { MonthFirstDay(m) : m \in 1..TimelineMonths }
                \cup { MonthLastDay(m) : m \in 1..TimelineMonths },
        tick \in 0..(TicksPerDay - 1) }

TimelineInit ==
    /\ timelineTasks = << >>
    /\ \E now \in TimelineInstants : timelineRange = calculateTimelineRange(<< >>, now)
    /\ TimelineOthersIdle

TimelineAddTask ==
    /\ Len(timelineTasks) < Len(TimelineIds)
    /\ \E s \in TimelineInstants, e \in TimelineInstants, now \in TimelineInstants :
          /\ timelineTasks' = Append(timelineTasks,
                 Task(TimelineIds[Len(timelineTasks) + 1], "", s, e, 0, NoValue, NoValue))
          /\ timelineRange' = calculateTimelineRange(timelineTasks', now)
    /\ TimelineFrame

TimelineNext == TimelineAddTask

SpecTimeline == TimelineInit /\ [][TimelineNext]_vars

\* ------------------------------------------------------------------------
\* C14 (SpecTimeline).  For non-empty input the timeline range starts at
\* the beginning of the first day of the month holding the earliest item
\* date and ends at the end of the last day of the month holding the latest
\* item date, so every item's start and end lie within the range.
\* ------------------------------------------------------------------------
TimelineDates ==
    { timelineTasks[i].startDate : i \in 1..Len(timelineTasks) }
    \cup { timelineTasks[i].endDate : i \in 1..Len(timelineTasks) }

C14_RangeCoversItems ==
    Len(timelineTasks) > 0 =>
        LET earliest == CHOOSE d \in TimelineDates : \A x \in TimelineDates : d <= x
            latest == CHOOSE d \in TimelineDates : \A x \in TimelineDates : x <= d
        IN  /\ DayOf(timelineRange[1]) = MonthFirstDay(MonthOf(earliest))
            /\ timelineRange[1] % TicksPerDay = 0
            /\ DayOf(timelineRange[2]) = MonthLastDay(MonthOf(latest))
            /\ timelineRange[2] % TicksPerDay = TicksPerDay - 1
            /\ \A d \in TimelineDates : timelineRange[1] <= d /\ d <= timelineRange[2]

\* Two items in different months, the latest date late on the last day of
\* its month, the earliest item date not belonging to the first item.
C14_Witness ==
    /\ Len(timelineTasks) = 2
    /\ MonthOf(timelineTasks[2].startDate) < MonthOf(timelineTasks[1].startDate)
    /\ \E d \in TimelineDates :
          /\ \A x \in TimelineDates : x <= d
          /\ DayOf(d) = MonthLastDay(MonthOf(d))
          /\ d % TicksPerDay = TicksPerDay - 1

\* ------------------------------------------------------------------------
\* Position Mapper: dateCalculations.ts calculateTaskPosition and
\* getTimelineUnitCount.  A percentage is kept as the exact fraction
\* num / den.
\* ------------------------------------------------------------------------
\* "+ 1": the raw difference does not include the end date.
exclusiveSpan(difference) == difference

inclusiveSpan(difference) == difference + 1

Percent(part, whole) == [ num |-> part * 100, den |-> whole ]

calculateTaskPosition(taskStart, taskEnd, timelineStart, timelineEnd) ==
    LET timelineSpan == inclusiveSpan(differenceInDays(timelineEnd, timelineStart))
        taskStartOffset == differenceInDays(taskStart, timelineStart)
        taskSpan == inclusiveSpan(differenceInDays(taskEnd, taskStart))
    IN  [ left |-> Percent(taskStartOffset, timelineSpan),
          width |-> Percent(taskSpan, timelineSpan) ]

\* date-fns differenceInWeeks: full weeks, truncated toward 0.
differenceInWeeks(later, earlier) ==
    IF later >= earlier THEN (later - earlier) \div (7 * TicksPerDay)
    ELSE -((earlier - later) \div (7 * TicksPerDay))

\* The day of the month and the tick of the day of an instant.
DayOfMonth(instant) == DayOf(instant) - MonthFirstDay(MonthOf(instant)) + 1

TickOfDay(instant) == instant % TicksPerDay

\* Date.setDate / Date.setMonth: the instant at a day-of-month of a month;
\* a day past the month's end runs over into the next month.
instantAt(month, dayOfMonth, tick) ==
    startOfDay(MonthFirstDay(month) + dayOfMonth - 1) + tick

\* date-fns differenceInMonths(dateLeft, dateRight) for dateLeft >= dateRight
\* in one year: the calendar-month difference, less one when the last
\* month is not full.
differenceInMonths(dateLeft, dateRight) ==
    LET difference == MonthOf(dateLeft) - MonthOf(dateRight)
        raised == IF MonthOf(dateLeft) = 2 /\ DayOfMonth(dateLeft) > 27
                  THEN instantAt(2, 30, TickOfDay(dateLeft))
                  ELSE dateLeft
        shifted == instantAt(MonthOf(raised) - difference, DayOfMonth(raised),
                             TickOfDay(raised))
        isLastDayOfMonth == DayOf(dateLeft) = MonthLastDay(MonthOf(dateLeft))
        isLastMonthNotFull ==
            /\ shifted < dateRight
            /\ ~(isLastDayOfMonth /\ difference = 1 /\ dateLeft > dateRight)
    IN  IF difference < 1 THEN 0
        ELSE difference - (IF isLastMonthNotFull THEN 1 ELSE 0)

\* getTimelineUnitCount for the steps 'day', 'week' and 'month'.
getTimelineUnitCount(timelineStart, timelineEnd, step) ==
    IF step = "week" THEN inclusiveSpan(differenceInWeeks(timelineEnd, timelineStart))
    ELSE IF step = "month"
    THEN inclusiveSpan(differenceInMonths(timelineEnd, timelineStart))
    ELSE inclusiveSpan(differenceInDays(timelineEnd, timelineStart))

\* ------------------------------------------------------------------------
\* Specification of the Position Mapper: a timeline that starts at the
\* beginning of day 1 and ends at any tick of a day up to PositionMaxDay,
\* and an item inside it with start and end at any ticks, start <= end;
\* the two functions are then applied.
\* ------------------------------------------------------------------------
PositionInstants == 0..endOfDay(PositionMaxDay)

PositionInit ==
    /\ \E timelineEnd \in PositionInstants :
       \E taskStart \in 0..timelineEnd : \E taskEnd \in taskStart..timelineEnd :
       \E step \in { "day", "week" } :
          positionIn = [ timelineStart |-> startOfDay(1), timelineEnd |-> timelineEnd,
                         taskStart |-> taskStart, taskEnd |-> taskEnd, step |-> step ]
    /\ positionOut = << >>
    /\ PositionOthersIdle

PositionApply ==
    /\ positionOut = << >>
    /\ positionOut' =
          [ position |-> calculateTaskPosition(positionIn.taskStart, positionIn.taskEnd,
                             positionIn.timelineStart, positionIn.timelineEnd),
            unitCount |-> getTimelineUnitCount(positionIn.timelineStart,
                             positionIn.timelineEnd, positionIn.step) ]
    /\ UNCHANGED positionIn
    /\ PositionFrame

PositionNext == PositionApply

SpecPosition == PositionInit /\ [][PositionNext]_vars

\* ------------------------------------------------------------------------
\* C15 (SpecPosition).  Span arithmetic is inclusive: a timeline of N days
\* has day unit count N, and an item covering k days that starts d days
\* after the range start has left = 100*d/N and width = 100*k/N; the
\* timeline [day 1, day 10] has count 10 and the item [day 1, day 1] has
\* width 10%.
\* ------------------------------------------------------------------------
PositionApplied == positionOut # << >>

TimelineDays == DayOf(positionIn.timelineEnd) - DayOf(positionIn.timelineStart) + 1

ItemDays == DayOf(positionIn.taskEnd) - DayOf(positionIn.taskStart) + 1

ItemOffsetDays == DayOf(positionIn.taskStart) - DayOf(positionIn.timelineStart)

IsPercent(fraction, part, whole) == fraction.num * whole = 100 * part * fraction.den

SpanArithmeticInclusive ==
    /\ positionIn.step = "day" => positionOut.unitCount = TimelineDays
    /\ IsPercent(positionOut.position.left, ItemOffsetDays, TimelineDays)
    /\ IsPercent(positionOut.position.width, ItemDays, TimelineDays)

EndTimeOfDayNotEarlier ==
    positionIn.taskEnd % TicksPerDay >= positionIn.taskStart % TicksPerDay

RoundTripInit ==
    /\ \E d \in 1..MaxDate, N \in (-MaxDate)..MaxDate, pixelsPerUnit \in 1..PixelsPerUnit :
          roundTripIn = [ date |-> d, units |-> N, pixelsPerUnit |-> pixelsPerUnit ]
    /\ roundTripOut = << >>
    /\ RoundTripOthersIdle

\* calculateDateFromDelta(d, +N * pixelsPerUnit, pixelsPerUnit, 'day').
DragThere ==
    /\ roundTripOut = << >>
    /\ roundTripOut' =
          << calculateDateFromDelta(roundTripIn.date,
                 roundTripIn.units * roundTripIn.pixelsPerUnit, roundTripIn.pixelsPerUnit) >>
    /\ UNCHANGED roundTripIn
    /\ RoundTripFrame

\* calculateDateFromDelta(result, -N * pixelsPerUnit, pixelsPerUnit, 'day').
DragBack ==
    /\ Len(roundTripOut) = 1
    /\ roundTripOut' =
          Append(roundTripOut,
              calculateDateFromDelta(roundTripOut[1],
                  -(roundTripIn.units * roundTripIn.pixelsPerUnit), roundTripIn.pixelsPerUnit))
    /\ UNCHANGED roundTripIn
    /\ RoundTripFrame

RoundTripNext == DragThere \/ DragBack

SpecRoundTrip == RoundTripInit /\ [][RoundTripNext]_vars

CalendarEvent(id, date, endDate) == [ id |-> id, date |-> date, endDate |-> endDate ]

isSameDay(instant1, instant2) == DayOf(instant1) = DayOf(instant2)

isMultiDayEvent(event) == ~isSameDay(event.date, event.endDate)

findIndexOfDayFromOne(weekDays, instant) ==
    IF \E i \in 1..Len(weekDays) : weekDays[i] = DayOf(instant)
    THEN CHOOSE i \in 1..Len(weekDays) : weekDays[i] = DayOf(instant)
    ELSE -1

\* weekDays.findIndex(day => isSameDay(day, instant)), 0-based, -1 if none.
findIndexOfDay(weekDays, instant) ==
    IF \E i \in 1..Len(weekDays) : weekDays[i] = DayOf(instant)
    THEN (CHOOSE i \in 1..Len(weekDays) : weekDays[i] = DayOf(instant)) - 1
    ELSE -1

calculateEventSpanInWeek(event, weekDays) ==
    LET weekStart == startOfDay(weekDays[1])
        weekEnd == startOfDay(weekDays[Len(weekDays)])
        eventStart == startOfDay(DayOf(event.date))
        eventEnd == startOfDay(DayOf(event.endDate))
        continuesBefore == eventStart < weekStart
        continuesAfter == eventEnd > weekEnd
        foundStart == findIndexOfDay(weekDays, eventStart)
        foundEnd == findIndexOfDay(weekDays, eventEnd)
        startCol == IF continuesBefore \/ foundStart = -1 THEN 0 ELSE foundStart
        endCol == IF continuesAfter \/ foundEnd = -1 THEN 6 ELSE foundEnd
    IN  [ startCol |-> startCol, colSpan |-> endCol - startCol + 1,
          continuesBefore |-> continuesBefore, continuesAfter |-> continuesAfter ]

overlapsWeekByStart(event, weekDays) ==
    /\ isMultiDayEvent(event)
    /\ ~(startOfDay(DayOf(event.date)) > endOfDay(weekDays[Len(weekDays)]))

\* The filter of getMultiDayEventsForWeek.
overlapsWeek(event, weekDays) ==
    /\ isMultiDayEvent(event)
    /\ ~(startOfDay(DayOf(event.date)) > endOfDay(weekDays[Len(weekDays)]))
    /\ ~(endOfDay(DayOf(event.endDate)) < startOfDay(weekDays[1]))

\* The comparator of the sort (lines 233-251).
compareWeekEventsByStart(a, b, weekDays) == a.date - b.date

compareWeekEvents(a, b, weekDays) ==
    LET spanA == calculateEventSpanInWeek(a, weekDays)
        spanB == calculateEventSpanInWeek(b, weekDays)
    IN  IF spanB.colSpan # spanA.colSpan THEN spanB.colSpan - spanA.colSpan
        ELSE IF a.date - b.date # 0 THEN a.date - b.date
        ELSE spanA.startCol - spanB.startCol

\* Array.prototype.sort with that comparator (stable).
RECURSIVE insertWeekEvent(_, _, _)
insertWeekEvent(event, sorted, weekDays) ==
    IF sorted = << >> THEN << event >>
    ELSE IF compareWeekEvents(Head(sorted), event, weekDays) <= 0
         THEN << Head(sorted) >> \o insertWeekEvent(event, Tail(sorted), weekDays)
         ELSE << event >> \o sorted

RECURSIVE sortWeekEvents(_, _)
sortWeekEvents(events, weekDays) ==
    IF events = << >> THEN << >>
    ELSE insertWeekEvent(events[Len(events)],
             sortWeekEvents(SubSeq(events, 1, Len(events) - 1), weekDays), weekDays)

getMultiDayEventsForWeek(events, weekDays) ==
    IF Len(weekDays) = 0 THEN << >>
    ELSE sortWeekEvents(SelectSeq(events, LAMBDA event : overlapsWeek(event, weekDays)),
                        weekDays)

\* ------------------------------------------------------------------------
\* Specification of the week row: the week is days 2..8; events e1, e2, e3
\* arrive one by one, each starting on day 1 (before the week), 2, 3 or 5
\* at any tick and lasting 1, 3 or 5 days; the week's multi-day events are
\* recomputed on every arrival.
\* ------------------------------------------------------------------------
WeekDays == << 2, 3, 4, 5, 6, 7, 8 >>

WeekEventIds == << "e1", "e2", "e3" >>

WeekEventStartDays == { 1, 2, 3, 5 }

WeekEventLengths == { 1, 3, 5 }

WeekInit ==
    /\ weekEvents = << >>
    /\ weekOut = << >>
    /\ WeekOthersIdle

WeekAddEvent ==
    /\ Len(weekEvents) < Len(WeekEventIds)
    /\ \E day \in WeekEventStartDays, tick \in 0..(TicksPerDay - 1),
          length \in WeekEventLengths :
          weekEvents' = Append(weekEvents,
              CalendarEvent(WeekEventIds[Len(weekEvents) + 1],
                            startOfDay(day) + tick, startOfDay(day + length - 1)))
    /\ weekOut' = getMultiDayEventsForWeek(weekEvents', WeekDays)
    /\ WeekFrame

WeekNext == WeekAddEvent

SpecWeek == WeekInit /\ [][WeekNext]_vars

\* ------------------------------------------------------------------------
\* C17 (SpecWeek).  The multi-day events returned for a week are exactly
\* the multi-day events that touch the week, ordered by the number of week
\* columns they cover, descending, then by start instant ascending, then by
\* start column ascending; events covering 5, 3 and 3 days, the 3-day ones
\* starting on days 3 and 5, come out as [5-day, 3-day(day 3),
\* 3-day(day 5)] whatever their input order.
\* ------------------------------------------------------------------------
WeekDaySet == { WeekDays[i] : i \in 1..Len(WeekDays) }

VisibleDays(event) ==
    { d \in WeekDaySet : DayOf(event.date) <= d /\ d <= DayOf(event.endDate) }

VisibleSpan(event) == Cardinality(VisibleDays(event))

VisibleStartColumn(event) ==
    (CHOOSE d \in VisibleDays(event) : \A x \in VisibleDays(event) : d <= x) - WeekDays[1]

WeekOrdered(a, b) ==
    \/ VisibleSpan(a) > VisibleSpan(b)
    \/ /\ VisibleSpan(a) = VisibleSpan(b)
       /\ \/ a.date < b.date
          \/ a.date = b.date /\ VisibleStartColumn(a) <= VisibleStartColumn(b)

IsSpanExample(events) ==
    /\ Len(events) = 3
    /\ \E i, j, k \in 1..3 :
          /\ { i, j, k } = 1..3
          /\ DayOf(events[i].date) = 2 /\ DayOf(events[i].endDate) = 6
          /\ DayOf(events[j].date) = 3 /\ DayOf(events[j].endDate) = 5
          /\ DayOf(events[k].date) = 5 /\ DayOf(events[k].endDate) = 7

C17_WeekEventOrder ==
    /\ { weekOut[i] : i \in 1..Len(weekOut) } =
           { weekEvents[i] : i \in 1..Len(weekEvents) } \cap
           { e \in { weekEvents[i] : i \in 1..Len(weekEvents) } :
                 DayOf(e.date) # DayOf(e.endDate) /\ VisibleDays(e) # {} }
    /\ Len(weekOut) = Cardinality({ weekOut[i] : i \in 1..Len(weekOut) })
    /\ \A i, j \in 1..Len(weekOut) : i < j => WeekOrdered(weekOut[i], weekOut[j])
    /\ IsSpanExample(weekEvents) =>
          /\ Len(weekOut) = 3
          /\ DayOf(weekOut[1].date) = 2
          /\ DayOf(weekOut[2].date) = 3
          /\ DayOf(weekOut[3].date) = 5

\* The example given with the 5-day event last and the later 3-day event
\* first.
C17_Witness ==
    /\ IsSpanExample(weekEvents)
    /\ DayOf(weekEvents[1].date) = 5
    /\ DayOf(weekEvents[3].date) = 2
    /\ Len(weekOut) = 3

\* ------------------------------------------------------------------------
\* Specification of the Gantt pipeline on malformed records: records n1,
\* n2, n3 arrive one by one; a record has an unparseable start date or one
\* of the date ranges [1,1], [1,2], [2,2], a group value (Alpha or none)
\* and a parent reference (none, a name that is no record, or, for n2,
\* n1); grouping and hierarchy are each on or off from the start.
\* ------------------------------------------------------------------------
MalformedDates == { << 0, 1 >>, << 1, 1 >>, << 1, 2 >>, << 2, 2 >> }

MalformedParentValues(id) ==
    IF id = "n2" THEN { NoValue, "missing", "n1" } ELSE { NoValue, "missing" }

MalformedInit ==
    /\ entries = << >>
    /\ groupByProperty \in { NoValue, "status" }
    /\ hierarchyProperty \in { NoValue, "Parent" }
    /\ collapsedGroups = {}
    /\ gantt = ganttLayout(<< >>, groupByProperty, hierarchyProperty, {})
    /\ PackIdle
    /\ HierIdle
    /\ GestureIdle
    /\ UtilIdle

\* onDataUpdated: the query result has one more record.
MalformedDataUpdated ==
    /\ Len(entries) < Len(GanttIds)
    /\ \E dates \in MalformedDates : \E g \in GanttGroupValues :
       \E p \in MalformedParentValues(GanttIds[Len(entries) + 1]) :
          LET id == GanttIds[Len(entries) + 1]
          IN  entries' = Append(entries, Entry(id, id, dates[1], dates[2], g, p))
    /\ UNCHANGED << groupByProperty, hierarchyProperty, collapsedGroups >>
    /\ Relayout
    /\ UNCHANGED << packVars, hierVars, gestureVars, utilVars >>

MalformedNext == MalformedDataUpdated

SpecMalformed == MalformedInit /\ [][MalformedNext]_vars

\* ------------------------------------------------------------------------
\* C18 (SpecMalformed).  A malformed record does not affect the layout of
\* the other records.
\* ------------------------------------------------------------------------
HasBadDate(entry) == entry.start < 1 \/ entry.end < 1

\* The parent reference names no record that is laid out.
HasDanglingParent(ents, entry) ==
    /\ hierarchyProperty # NoValue
    /\ ~HasBadDate(entry)
    /\ entry.parentRaw # NoValue
    /\ ~\E k \in 1..Len(ents) :
          ~HasBadDate(ents[k]) /\ entry.parentRaw \in { ents[k].id, ents[k].title }

LayoutFor(ents) == ganttLayout(ents, groupByProperty, hierarchyProperty, collapsedGroups)

\* Row and group of every record other than id, in output order.
PlacementOfOthers(layout, id) ==
    LET others == SelectSeq(layout.tasks, LAMBDA t : t.id # id /\ ~IsVirtual(t))
    IN  [ n \in 1..Len(others) |->
            [ id |-> others[n].id, row |-> others[n].row, group |-> others[n].group ] ]

WithoutEntry(ents, i) == SubSeq(ents, 1, i - 1) \o SubSeq(ents, i + 1, Len(ents))

WithoutParent(ents, i) == [ ents EXCEPT ![i].parentRaw = NoValue ]

SameAsWhenAbsent(i) ==
    PlacementOfOthers(gantt, entries[i].id) =
        PlacementOfOthers(LayoutFor(WithoutEntry(entries, i)), entries[i].id)

NullValue == [ type |-> "null" ]

StringValue(chars) == [ type |-> "string", chars |-> chars ]

NumberValue(n) == [ type |-> "number", number |-> n ]

BooleanValue(b) == [ type |-> "boolean", boolean |-> b ]

ObjectValue(fields) == [ type |-> "object", fields |-> fields ]

\* String.prototype.startsWith and endsWith
startsWith(chars, prefix) ==
    Len(chars) >= Len(prefix) /\ SubSeq(chars, 1, Len(prefix)) = prefix

endsWith(chars, suffix) ==
    Len(chars) >= Len(suffix)
        /\ SubSeq(chars, Len(chars) - Len(suffix) + 1, Len(chars)) = suffix

\* value.slice(2, -2)
sliceBrackets(chars) == SubSeq(chars, 3, Len(chars) - 2)

\* String.prototype.split on a one-character separator
RECURSIVE split(_, _)
split(chars, separator) ==
    IF \A i \in 1..Len(chars) : chars[i] # separator
    THEN << chars >>
    ELSE LET at == SetMin({ i \in 1..Len(chars) : chars[i] = separator })
         IN  << SubSeq(chars, 1, at - 1) >>
                 \o split(SubSeq(chars, at + 1, Len(chars)), separator)

\* filename.replace(/\.md$/, '')
keepExtension(filename) == filename

replaceMdSuffix(filename) ==
    IF endsWith(filename, << ".", "m", "d" >>)
    THEN SubSeq(filename, 1, Len(filename) - 3)
    ELSE filename

\* String(number) for a natural number: its decimal digits
Digit(n) == << "0", "1", "2", "3", "4", "5", "6", "7", "8", "9" >>[n + 1]

RECURSIVE numberToString(_)
numberToString(n) ==
    IF n < 10 THEN << Digit(n) >>
    ELSE Append(numberToString(n \div 10), Digit(n % 10))

\* String(value) of a number or a boolean
String(value) ==
    IF value.type = "number" THEN numberToString(value.number)
    ELSE IF value.boolean THEN << "t", "r", "u", "e" >> ELSE << "f", "a", "l", "s", "e" >>

\* JSON.stringify of a string (none of the characters here needs an escape)
jsonString(chars) == << "\"" >> \o chars \o << "\"" >>

\* The keys of an object literal, in the order they are written.
KeyOrder == << "path", "displayText", "file", "width" >>

KeyChars(key) ==
    CASE key = "path" -> << "p", "a", "t", "h" >>
      [] key = "displayText" -> << "d", "i", "s", "p", "l", "a", "y", "T", "e", "x", "t" >>
      [] key = "file" -> << "f", "i", "l", "e" >>
      [] key = "width" -> << "w", "i", "d", "t", "h" >>
      [] key = "basename" -> << "b", "a", "s", "e", "n", "a", "m", "e" >>

\* JSON.stringify of the file object, which has a basename or nothing
jsonFile(file) ==
    IF "basename" \in DOMAIN file
    THEN << "{" >> \o jsonString(KeyChars("basename")) \o << ":" >>
             \o jsonString(file.basename) \o << "}" >>
    ELSE << "{", "}" >>

jsonField(fields, key) ==
    jsonString(KeyChars(key)) \o << ":" >> \o
        (CASE key = "file" -> jsonFile(fields[key])
           [] key = "width" -> numberToString(fields[key])
           [] OTHER -> jsonString(fields[key]))

RECURSIVE jsonFields(_, _, _)
jsonFields(fields, index, first) ==
    IF index > Len(KeyOrder) THEN << >>
    ELSE IF KeyOrder[index] \in DOMAIN fields
    THEN (IF first THEN << >> ELSE << "," >>) \o jsonField(fields, KeyOrder[index])
             \o jsonFields(fields, index + 1, FALSE)
    ELSE jsonFields(fields, index + 1, first)

\* JSON.stringify(value) of an object
JSONstringify(value) == << "{" >> \o jsonFields(value.fields, 1, TRUE) \o << "}" >>

\* v.key is truthy: the key is there and its string is not empty
truthy(fields, key) == key \in DOMAIN fields /\ fields[key] # << >>

valueToString(value) ==
    IF value.type = "null" THEN << >>
    ELSE IF /\ value.type = "string"
            /\ startsWith(value.chars, << "[", "[" >>)
            /\ endsWith(value.chars, << "]", "]" >>)
    THEN LET content == sliceBrackets(value.chars)
             parts == split(content, "|")
         IN  IF Len(parts) > 1 THEN parts[2] ELSE parts[1]
    ELSE IF value.type = "object"
    THEN LET v == value.fields
         IN  IF truthy(v, "displayText") THEN v.displayText
             ELSE IF truthy(v, "path")
             THEN LET parts == split(v.path, "/")
                      filename == parts[Len(parts)]
                  IN  replaceMdSuffix(filename)
             ELSE IF "file" \in DOMAIN v /\ truthy(v.file, "basename")
             THEN v.file.basename
             ELSE JSONstringify(value)
    ELSE IF value.type = "string" THEN value.chars
    ELSE String(value)

extractLinkText(value) == valueToString(value)

\* ------------------------------------------------------------------------
\* Specification of valueToString: it is applied to one value, chosen
\* after the start: strings with zero, one or two opening and closing brackets
\* around up to LabelMaxLen characters, objects with or without
\* displayText, path, file and width, numbers, booleans and null.
\* ------------------------------------------------------------------------
LabelMaxLen == 5

PathNameMaxLen == 4

SeqsUpTo(chars, n) == UNION { [ 1..k -> chars ] : k \in 0..n }

LabelBodies == SeqsUpTo({ "a", "b", "|", "/" }, LabelMaxLen)

LabelOpenings == { << >>, << "[" >>, << "[", "[" >> }

LabelClosings == { << >>, << "]" >>, << "]", "]" >> }

LabelPaths ==
    { dir \o name : dir \in { << >>, << "/" >>, << "a", "/" >> },
                    name \in SeqsUpTo({ "a", ".", "m", "d" }, PathNameMaxLen) }

NoFields == << >>

LabelDisplayTexts == { NoFields } \cup { "displayText" :> text : text \in { << >>, << "N" >> } }

LabelPathFields == { NoFields } \cup { "path" :> path : path \in LabelPaths }

LabelFiles ==
    { NoFields } \cup { "file" :> file :
        file \in { NoFields } \cup { "basename" :> name : name \in { << >>, << "F" >> } } }

LabelWidths == { NoFields, "width" :> 100 }

LabelPrimitives ==
    { NullValue, BooleanValue(TRUE), BooleanValue(FALSE) }
        \cup { NumberValue(n) : n \in { 0, 7, 100 } }

LabelInit ==
    /\ labelIn = NullValue
    /\ labelOut = valueToString(NullValue)
    /\ LabelOthersIdle

LabelOfString ==
    /\ labelIn = NullValue
    /\ \E opening \in LabelOpenings, body \in LabelBodies, closing \in LabelClosings :
          labelIn' = StringValue(opening \o body \o closing)
    /\ labelOut' = valueToString(labelIn')
    /\ LabelFrame

LabelOfObject ==
    /\ labelIn = NullValue
    /\ \E text \in LabelDisplayTexts, path \in LabelPathFields,
          file \in LabelFiles, width \in LabelWidths :
          labelIn' = ObjectValue(path @@ text @@ file @@ width)
    /\ labelOut' = valueToString(labelIn')
    /\ LabelFrame

LabelOfPrimitive ==
    /\ labelIn = NullValue
    /\ \E value \in LabelPrimitives : labelIn' = value
    /\ labelOut' = valueToString(labelIn')
    /\ LabelFrame

LabelNext == LabelOfString \/ LabelOfObject \/ LabelOfPrimitive

SpecLabel == LabelInit /\ [][LabelNext]_vars

\* ------------------------------------------------------------------------
\* C19 (SpecLabel).  The display label of a value, by precedence.
\* ------------------------------------------------------------------------
IsObject(value) == value.type = "object"

HasText(value, key) ==
    IsObject(value) /\ key \in DOMAIN value.fields /\ Len(value.fields[key]) > 0

IsBracketedLink(value) ==
    /\ value.type = "string"
    /\ Len(value.chars) >= 4
    /\ value.chars[1] = "[" /\ value.chars[2] = "["
    /\ value.chars[Len(value.chars) - 1] = "]" /\ value.chars[Len(value.chars)] = "]"

\* What stands between the brackets.
LinkContent(chars) == [ i \in 1..(Len(chars) - 4) |-> chars[i + 2] ]

Positions(chars, char) == { i \in 1..Len(chars) : chars[i] = char }

\* What stands between the first bar and the next bar, or the end.
AliasSegment(content) ==
    LET bars == Positions(content, "|")
        first == SetMin(bars)
        later == { j \in bars : j > first }
        stop == IF later = {} THEN Len(content) + 1 ELSE SetMin(later)
    IN  [ i \in 1..(stop - first - 1) |-> content[first + i] ]

\* What stands after the last slash, without a closing ".md".
BasenameWithoutExtension(path) ==
    LET slashes == Positions(path, "/")
        from == IF slashes = {} THEN 0 ELSE SetMax(slashes)
        name == [ i \in 1..(Len(path) - from) |-> path[from + i] ]
        n == Len(name)
    IN  IF n >= 3 /\ name[n - 2] = "." /\ name[n - 1] = "m" /\ name[n] = "d"
        THEN [ i \in 1..(n - 3) |-> name[i] ]
        ELSE name

HasFileBasename(value) ==
    /\ IsObject(value)
    /\ "file" \in DOMAIN value.fields
    /\ "basename" \in DOMAIN value.fields.file
    /\ Len(value.fields.file.basename) > 0

\* The steps of the precedence after the display text and the path.
LabelOfTheRest(value) ==
    IF IsBracketedLink(value) /\ Positions(LinkContent(value.chars), "|") # {}
    THEN AliasSegment(LinkContent(value.chars))
    ELSE IF IsBracketedLink(value) THEN LinkContent(value.chars)
    ELSE IF IsObject(value) THEN JSONstringify(value)
    ELSE IF value.type = "string" THEN value.chars
    ELSE String(value)

LabelByPrecedence(value) ==
    IF HasText(value, "displayText") THEN value.fields.displayText
    ELSE IF HasText(value, "path") THEN BasenameWithoutExtension(value.fields.path)
    ELSE LabelOfTheRest(value)

\* C19 as stated: the label of a value is its display text if it has one,
\* else the basename of its path without the extension, else the alias of
\* the bracketed link, else its target, else the JSON text of an object,
\* else the string form of the primitive.
C19_LabelPrecedence ==
    labelIn.type # "null" => labelOut = LabelByPrecedence(labelIn)

\* C19 amended: the same precedence with one more step, the basename of
\* the file field, after the path and before the JSON text; null gives
\* the empty string.
C19_LabelPrecedenceWithFile ==
    /\ labelIn.type = "null" => labelOut = << >>
    /\ labelIn.type # "null" =>
          labelOut = IF HasText(labelIn, "displayText") \/ HasText(labelIn, "path")
                     THEN LabelByPrecedence(labelIn)
                     ELSE IF HasFileBasename(labelIn)
                     THEN labelIn.fields.file.basename
                     ELSE LabelOfTheRest(labelIn)

\* The claim's second example: { path: 'a/a.md', displayText: 'N' } with
\* a file basename as well gives 'N'.
C19_Witness ==
    /\ IsObject(labelIn)
    /\ HasText(labelIn, "displayText")
    /\ HasText(labelIn, "path")
    /\ labelIn.fields.path = << "a", "/", "a", ".", "m", "d" >>
    /\ HasFileBasename(labelIn)
    /\ labelOut = << "N" >>

\* ------------------------------------------------------------------------
\* C20 (SpecPack).  The rows of the three items [1,3], [2,4] and [3,5].
\* ------------------------------------------------------------------------
C20_IsExample ==
    /\ Len(packIn) = 3
    /\ { << packIn[i].startDate, packIn[i].endDate >> : i \in 1..3 }
           = { << 1, 3 >>, << 2, 4 >>, << 3, 5 >> }

\* C20 as stated: the three items get exactly 2 distinct rows.
C20_ExampleTwoRows ==
    C20_IsExample => Cardinality(RowsUsed(packOut)) = 2

\* C20 amended: the three items, which all cover day 3, get exactly 3
\* distinct rows, in whatever order they arrive.
C20_ExampleThreeRows ==
    C20_IsExample =>
        /\ Cardinality(RowsUsed(packOut)) = 3
        /\ \A i \in 1..3 : packOut[i].row = packOut[i].startDate - 1

\* The three items, arriving latest first.
C20_Witness ==
    /\ C20_IsExample
    /\ packIn[1].startDate = 3 /\ packIn[2].startDate = 2 /\ packIn[3].startDate = 1
    /\ Len(packOut) = 3

\* ------------------------------------------------------------------------
\* Board view: groupEntriesByProperty (boardHelpers.ts) and handleDragEnd
\* (KanbanBoard).  A property value is undefined or a string; a string is
\* the sequence of its segments between colons, so "a:b" is << "a", "b" >>.
\* ------------------------------------------------------------------------
Undefined == [ defined |-> FALSE, segments |-> << >> ]

BoardText(segments) == [ defined |-> TRUE, segments |-> segments ]

BoardEntry(id, value) == [ id |-> id, value |-> value ]

\* String(value)
boardString(value) == IF value = Undefined THEN << "undefined" >> ELSE value.segments

\* boardHelpers.ts valueToString of a string
boardValueToString(value) == value.segments

\* groupEntriesByProperty: the key of the group an entry is put in
groupKeyOf(entry) ==
    IF entry.value # Undefined THEN boardValueToString(entry.value)
    ELSE << "Uncategorized" >>

\* groupEntriesByProperty: the keys of the Map
groupEntriesKeys(ents) == { groupKeyOf(ents[i]) : i \in 1..Len(ents) }

\* overIdStr.split(':')[0]
newGroupValueOf(overId) == << overId[1] >>

\* handleDragEnd for a card dropped on a column, no sub-group property:
\* the updateProperty calls it makes.
handleDragEnd(entry, overId) ==
    IF boardString(entry.value) # newGroupValueOf(overId)
    THEN << [ id |-> entry.id, value |-> newGroupValueOf(overId) ] >>
    ELSE << >>

\* updateProperty: the frontmatter of the card's file gets the value.
ApplyBoardUpdates(ents, updates) ==
    [ i \in 1..Len(ents) |->
        IF \E u \in 1..Len(updates) : updates[u].id = ents[i].id
        THEN BoardEntry(ents[i].id, BoardText(updates[1].value))
        ELSE ents[i] ]

\* ------------------------------------------------------------------------
\* Specification of the board: cards c1, c2, c3 arrive one by one, each
\* without the group-by property or with one of three values, and any card
\* is dropped on any column the board shows.
\* ------------------------------------------------------------------------
BoardIds == << "c1", "c2", "c3" >>

BoardValues ==
    { Undefined, BoardText(<< "Todo" >>), BoardText(<< "Done" >>),
      BoardText(<< "Later", "maybe" >>) }

BoardInit ==
    /\ boardEntries = << >>
    /\ boardDrop = << >>
    /\ BoardOthersIdle

BoardDataUpdated ==
    /\ Len(boardEntries) < Len(BoardIds)
    /\ \E value \in BoardValues :
          boardEntries' = Append(boardEntries, BoardEntry(BoardIds[Len(boardEntries) + 1], value))
    /\ UNCHANGED boardDrop
    /\ BoardFrame

BoardDropCard ==
    /\ \E i \in 1..Len(boardEntries) : \E overId \in groupEntriesKeys(boardEntries) :
          LET updates == handleDragEnd(boardEntries[i], overId)
          IN  /\ boardDrop' = [ card |-> boardEntries[i].id,
                                shownIn |-> groupKeyOf(boardEntries[i]),
                                over |-> overId,
                                updates |-> updates ]
              /\ boardEntries' = ApplyBoardUpdates(boardEntries, updates)
    /\ BoardFrame

BoardNext == BoardDataUpdated \/ BoardDropCard

SpecBoard == BoardInit /\ [][BoardNext]_vars

\* ------------------------------------------------------------------------
\* C21 (SpecBoard).  A drop on another column issues one update that sets
\* the group-by property to that column's value; a drop on the column the
\* card is shown in, 'Uncategorized' included, issues no update.
\* ------------------------------------------------------------------------
C21_DropUpdatesGroup ==
    boardDrop # << >> =>
        IF boardDrop.over = boardDrop.shownIn
        THEN boardDrop.updates = << >>
        ELSE boardDrop.updates = << [ id |-> boardDrop.card, value |-> boardDrop.over ] >>

\* The same, for cards and columns whose value has no colon and is set.
C21_DropOfPlainValues ==
    (/\ boardDrop # << >>
     /\ Len(boardDrop.over) = 1 /\ Len(boardDrop.shownIn) = 1
     /\ boardDrop.shownIn # << "Uncategorized" >>) =>
        IF boardDrop.over = boardDrop.shownIn
        THEN boardDrop.updates = << >>
        ELSE boardDrop.updates = << [ id |-> boardDrop.card, value |-> boardDrop.over ] >>

\* ------------------------------------------------------------------------
\* C22 (SpecGantt).  The rows of the members of an expanded group.
\* ------------------------------------------------------------------------
RowOfId(tasks, id) == CHOOSE r \in RowsUsed(tasks) : \E i \in 1..Len(tasks) : tasks[i].id = id /\ tasks[i].row = r

C23_SpanInsideWeek ==
    \A i \in 1..Len(weekOut) :
        LET event == weekOut[i]
            span == calculateEventSpanInWeek(event, WeekDays)
        IN  /\ 0 <= span.startCol /\ span.startCol <= 6
            /\ span.colSpan >= 1
            /\ span.startCol + span.colSpan <= 7
            /\ span.startCol = 0 <=> DayOf(event.date) <= WeekDays[1]
            /\ span.continuesBefore <=> DayOf(event.date) < WeekDays[1]
            /\ span.continuesAfter <=> DayOf(event.endDate) > WeekDays[Len(WeekDays)]

\* The week shows an event that began before it, an event that ends after
\* it and an event that lies inside it.
C23_Witness ==
    /\ \E i \in 1..Len(weekOut) :
          calculateEventSpanInWeek(weekOut[i], WeekDays).continuesBefore
    /\ \E i \in 1..Len(weekOut) :
          /\ calculateEventSpanInWeek(weekOut[i], WeekDays).continuesAfter
          /\ calculateEventSpanInWeek(weekOut[i], WeekDays).startCol > 0
    /\ \E i \in 1..Len(weekOut) :
          LET span == calculateEventSpanInWeek(weekOut[i], WeekDays)
          IN  ~span.continuesBefore /\ ~span.continuesAfter /\ span.startCol > 0

\* ------------------------------------------------------------------------
\* C24 (SpecGanttGesture).  When a Gantt resize gesture ends with every
\* request completed, the stored date of the resized edge is the date of
\* the final pointer position, if that date keeps start <= end; this
\* includes the original date when the pointer is back where it started.
\* ------------------------------------------------------------------------
ResizeReleased ==
    /\ PointerUpStep
    /\ gesture.kind = "ganttResize"
    /\ inFlight = << >>

FinalResizeDate ==
    (IF gesture.handle = "start" THEN gesture.originalStart ELSE gesture.originalEnd)
        + gesture.currentDelta

FinalResizeDateKeepsOrder ==
    IF gesture.handle = "start" THEN FinalResizeDate <= gesture.originalEnd
    ELSE FinalResizeDate >= gesture.originalStart

StoredEdge == IF gesture.handle = "start" THEN store.start ELSE store.end

C24_ResizeEndsAtPointer ==
    [][ (ResizeReleased /\ FinalResizeDateKeepsOrder) =>
            StoredEdge = FinalResizeDate ]_vars

\* ------------------------------------------------------------------------
\* Persistence of collapsed groups: GanttBasesView.getReactComponent,
\* GanttView and useGanttData.  A Set is the sequence of its members in
\* insertion order; Array.from(set) is that sequence.
\* ------------------------------------------------------------------------
SetHas(set, member) == \E i \in 1..Len(set) : set[i] = member

\* next.has(name) ? next.delete(name) : next.add(name)
toggled(set, name) ==
    IF SetHas(set, name) THEN SelectSeq(set, LAMBDA member : member # name)
    ELSE Append(set, name)

\* new Set(list || []) for a list that may be undefined
NoArgument == << "undefined" >>

newSetOf(list) == IF list = NoArgument THEN << >> ELSE list

\* The call of useGanttData in GanttView (lines 44-51): six arguments, the
\* sixth being options.collapsedGroups; useGanttData's sixth parameter is
\* initialHierarchyProperty and its seventh, initialCollapsedGroups, gets
\* no argument.
useGanttDataArguments(optionsCollapsedGroups) ==
    [ initialHierarchyProperty |-> optionsCollapsedGroups,
      initialCollapsedGroups |-> NoArgument ]

\* useState initial values of the hook (lines 37-42); an array is truthy,
\* so initialHierarchyProperty || 'Parent' is the array.
useGanttDataState(arguments, dataVersion) ==
    [ hierarchyProperty |-> arguments.initialHierarchyProperty,
      collapsedGroups |-> newSetOf(arguments.initialCollapsedGroups),
      dataVersion |-> dataVersion ]

\* ------------------------------------------------------------------------
\* Specification of collapse persistence: the view configuration holds a
\* list saved by an earlier session; the view is opened, groups Alpha,
\* Beta and Gamma are toggled, the data refreshes, the view is closed.
\* ------------------------------------------------------------------------
CollapseGroupNames == { "Alpha", "Beta", "Gamma" }

CollapseLists ==
    { list \in UNION { [ 1..n -> CollapseGroupNames ] : n \in 0..3 } :
        \A i, j \in 1..Len(list) : i # j => list[i] # list[j] }

CollapseInit ==
    /\ collapseConfig \in CollapseLists
    /\ collapseView = << >>
    /\ CollapseOthersIdle

\* The view is opened: getReactComponent reads the configuration and
\* GanttView mounts.
OpenGanttView ==
    /\ collapseView = << >>
    /\ collapseView' = useGanttDataState(useGanttDataArguments(collapseConfig), 0)
    /\ UNCHANGED collapseConfig
    /\ CollapseFrame

\* handleToggleGroupCollapse: the hook's set is toggled and the toggled
\* copy of the set the hook returned is persisted.
HandleToggleGroupCollapse ==
    /\ collapseView # << >>
    /\ \E groupName \in CollapseGroupNames :
          /\ collapseView' = [ collapseView EXCEPT
                                 !.collapsedGroups = toggled(@, groupName) ]
          /\ collapseConfig' = toggled(collapseView.collapsedGroups, groupName)
    /\ CollapseFrame

\* onDataUpdated: getReactComponent runs again with the configuration;
\* the effects of the hook whose argument changed run (lines 45-51).
CollapseDataRefresh ==
    /\ collapseView # << >>
    /\ LET arguments == useGanttDataArguments(collapseConfig)
       IN  collapseView' =
               [ collapseView EXCEPT
                   !.hierarchyProperty = arguments.initialHierarchyProperty,
                   !.dataVersion = 1 - @ ]
    /\ UNCHANGED collapseConfig
    /\ CollapseFrame

CloseGanttView ==
    /\ collapseView # << >>
    /\ collapseView' = << >>
    /\ UNCHANGED collapseConfig
    /\ CollapseFrame

CollapseNext ==
    \/ OpenGanttView
    \/ HandleToggleGroupCollapse
    \/ CollapseDataRefresh
    \/ CloseGanttView

SpecCollapse == CollapseInit /\ [][CollapseNext]_vars

\* ------------------------------------------------------------------------
\* C25 (SpecCollapse).  While the view is open, the persisted list of
\* collapsed groups holds exactly the groups the view shows as collapsed;
\* in particular a view opened with a persisted list shows those groups
\* collapsed.
\* ------------------------------------------------------------------------
MembersOf(list) == { list[i] : i \in 1..Len(list) }

C25_PersistedEqualsShown ==
    collapseView # << >> =>
        MembersOf(collapseConfig) = MembersOf(collapseView.collapsedGroups)

\* ------------------------------------------------------------------------
\* Clicks on a task bar: TaskBar.handleClick with consumeHadMovement of
\* useTaskDrag and of useTaskResize.
\* ------------------------------------------------------------------------
ClickRefs(dragHadMovement, resizeHadMovement, pressed, farthest) ==
    [ dragHadMovement |-> dragHadMovement, resizeHadMovement |-> resizeHadMovement,
      pressed |-> pressed, farthest |-> farthest ]

\* Math.abs(deltaX) > 3 marks the gesture as moved.
marksMovement(pixels) == Abs(pixels) > 3

\* handleClick: both flags are consumed; the note opens if neither was set.
handleClickOpens(refs) == ~(refs.dragHadMovement \/ refs.resizeHadMovement)

\* The element the browser sends the click to after mouse-up: the common
\* ancestor of where the button went down and where it came up.  Without
\* movement that is the element pressed; after movement the pointer may be
\* over the handle, over the bar or outside the bar.
ClickTargets(refs) ==
    IF refs.farthest = 0
    THEN IF refs.pressed = "content" THEN { "bar" } ELSE { "handle" }
    ELSE IF refs.pressed = "content" THEN { "bar", "none" }
    ELSE { "handle", "bar", "none" }

\* ------------------------------------------------------------------------
\* Specification of clicks: the bar's content or a resize handle is
\* pressed, the pointer moves by 0, 2 or 5 pixels, the button is released
\* and the click, if any, is handled.
\* ------------------------------------------------------------------------
ClickPixels == { 0, 2, 5 }

ClickInit ==
    /\ clickRefs = ClickRefs(FALSE, FALSE, "none", 0)
    /\ clickLog = << >>
    /\ ClickOthersIdle

\* useTaskDrag.handleDragStart: hadMovementRef.current = false.
PressContent ==
    /\ clickRefs.pressed = "none"
    /\ clickRefs' = ClickRefs(FALSE, clickRefs.resizeHadMovement, "content", 0)
    /\ UNCHANGED clickLog
    /\ ClickFrame

\* useTaskResize.handleResizeStart: hadMovementRef.current = false.
PressHandle ==
    /\ clickRefs.pressed = "none"
    /\ clickRefs' = ClickRefs(clickRefs.dragHadMovement, FALSE, "handle", 0)
    /\ UNCHANGED clickLog
    /\ ClickFrame

\* handleMouseMove of the gesture in progress.
PointerMove ==
    /\ clickRefs.pressed # "none"
    /\ \E pixels \in ClickPixels :
          clickRefs' =
              [ clickRefs EXCEPT
                  !.dragHadMovement = @ \/ (clickRefs.pressed = "content" /\ marksMovement(pixels)),
                  !.resizeHadMovement = @ \/ (clickRefs.pressed = "handle" /\ marksMovement(pixels)),
                  !.farthest = SetMax({ @, pixels }) ]
    /\ UNCHANGED clickLog
    /\ ClickFrame

\* handleMouseUp, then the click event: on the bar it runs handleClick, on
\* a handle it is stopped (onClick stopPropagation), outside there is none.
ReleaseAndClick ==
    /\ clickRefs.pressed # "none"
    /\ \E target \in ClickTargets(clickRefs) :
          /\ clickLog' = [ pressed |-> clickRefs.pressed,
                           farthest |-> clickRefs.farthest,
                           target |-> target,
                           opened |-> target = "bar" /\ handleClickOpens(clickRefs) ]
          /\ clickRefs' =
                 IF target = "bar"
                 THEN ClickRefs(FALSE, FALSE, "none", 0)
                 ELSE ClickRefs(clickRefs.dragHadMovement, clickRefs.resizeHadMovement,
                                "none", 0)
    /\ ClickFrame

ClickNext == PressContent \/ PressHandle \/ PointerMove \/ ReleaseAndClick

SpecClick == ClickInit /\ [][ClickNext]_vars

\* ------------------------------------------------------------------------
\* C26 (SpecClick).  A click on the task bar made without pointer movement
\* opens the note, whatever gestures came before it.
\* ------------------------------------------------------------------------
C26_StillClickOpensNote ==
    (/\ clickLog # << >>
     /\ clickLog.target = "bar"
     /\ clickLog.farthest = 0) => clickLog.opened

\* The click that ends a gesture with movement does not open the note.
C26_MovedClickSuppressed ==
    (/\ clickLog # << >>
     /\ clickLog.target = "bar"
     /\ clickLog.farthest > 3) => ~clickLog.opened

\* ------------------------------------------------------------------------
\* Specification of the Hierarchy Sorter on shared names: records a, b, c
\* arrive in that order; a title is T, U or b (the id of record b), so two
\* records can share a title and a title can be another record's id; a
\* parent reference is empty, an id or a title; every arrival re-runs the
\* sorter on the whole list.  Each record lasts one day.
\* ------------------------------------------------------------------------
SharedIds == << "a", "b", "c" >>

SharedTitles == { "T", "U", "b" }

SharedParentRefs == { NoValue, "a", "b", "c", "T", "U" }

SharedStarts == { 1, 2 }

SharedInit ==
    /\ hierIn = << >>
    /\ hierOut = sortTasksByHierarchy(<< >>)
    /\ PackIdle
    /\ GanttIdle
    /\ GestureIdle
    /\ UtilIdle

SharedAdd ==
    /\ Len(hierIn) < Len(SharedIds)
    /\ \E title \in SharedTitles : \E p \in SharedParentRefs : \E s \in SharedStarts :
          LET t == Task(SharedIds[Len(hierIn) + 1], title, s, s, Len(hierIn), NoValue, p)
          IN  /\ hierIn' = Append(hierIn, t)
              /\ hierOut' = sortTasksByHierarchy(hierIn')
    /\ UNCHANGED << packVars, ganttVars, gestureVars, utilVars >>

SharedNext == SharedAdd

SpecHierShared == SharedInit /\ [][SharedNext]_vars

\* ------------------------------------------------------------------------
\* C27 (SpecHierShared).  On input whose parent references form no cycle
\* the sorter returns every input item exactly once, also when items share
\* a title or an item's title is another item's id.
\* ------------------------------------------------------------------------
C27_SharedNamesKeepAll ==
    ~InputHasCycle(hierIn) =>
        \A i \in 1..Len(hierIn) : CountId(hierOut, hierIn[i].id) = 1

\* The same for input in which no title is shared and no title is an id.
NamesDistinct(tasks) ==
    \A i, j \in 1..Len(tasks) :
        /\ i # j => tasks[i].title # tasks[j].title
        /\ tasks[i].title # tasks[j].id

C27_DistinctNamesKeepAll ==
    (~InputHasCycle(hierIn) /\ NamesDistinct(hierIn)) =>
        \A i \in 1..Len(hierIn) : CountId(hierOut, hierIn[i].id) = 1

\* ------------------------------------------------------------------------
\* generateTimelineMarkers (dateCalculations.ts) with date-fns
\* eachDayOfInterval, eachWeekOfInterval (weekStartsOn: 1) and
\* eachMonthOfInterval.  The weekday of a day is counted from Monday = 0;
\* dayOneWeekday is the weekday of day 1 of the year.
\* ------------------------------------------------------------------------
weekdayOf(day, dayOneWeekday) == (day - 1 + dayOneWeekday) % 7

\* startOfWeek(date, { weekStartsOn: 1 }), as a day number (it may lie
\* before day 1).
startOfWeekDay(instant, dayOneWeekday) ==
    DayOf(instant) - weekdayOf(DayOf(instant), dayOneWeekday)

eachDayOfInterval(start, end) ==
    [ i \in 1..(DayOf(end) - DayOf(start) + 1) |-> DayOf(start) + i - 1 ]

eachWeekOfInterval(start, end, dayOneWeekday) ==
    LET startDateWeek == startOfWeekDay(start, dayOneWeekday)
        endDateWeek == startOfWeekDay(end, dayOneWeekday)
    IN  [ i \in 1..((endDateWeek - startDateWeek) \div 7 + 1) |->
            startDateWeek + 7 * (i - 1) ]

eachMonthOfInterval(start, end) ==
    [ i \in 1..(MonthOf(end) - MonthOf(start) + 1) |->
        MonthFirstDay(MonthOf(start) + i - 1) ]

\* The dates of the markers, as day numbers.
generateTimelineMarkers(timelineStart, timelineEnd, step, dayOneWeekday) ==
    IF step = "week" THEN eachWeekOfInterval(timelineStart, timelineEnd, dayOneWeekday)
    ELSE IF step = "month" THEN eachMonthOfInterval(timelineStart, timelineEnd)
    ELSE eachDayOfInterval(timelineStart, timelineEnd)

\* ------------------------------------------------------------------------
\* Specification of the header and the grid: the earliest item date is
\* the first or last day of a month of the year, the latest one the first
\* or last day of the same or a later month; day 1 is any weekday; the
\* step is day, week or month.  The range is computed, then Timeline and
\* Grid render.
\* ------------------------------------------------------------------------
MarkerMonths == 1..12

MarkerDates(month) == { startOfDay(MonthFirstDay(month)), startOfDay(MonthLastDay(month)) }

MarkersInit ==
    /\ \E first \in MarkerMonths : \E last \in first..12 :
       \E minDate \in MarkerDates(first) : \E maxDate \in MarkerDates(last) :
       \E dayOneWeekday \in 0..6 : \E step \in { "day", "week", "month" } :
          /\ minDate <= maxDate
          /\ markersIn =
                [ minDate |-> minDate, maxDate |-> maxDate,
                  dayOneWeekday |-> dayOneWeekday, step |-> step,
                  range |-> calculateTimelineRange(
                                << Task("a", "", minDate, maxDate, 0, NoValue, NoValue) >>,
                                minDate) ]
    /\ markersOut = << >>
    /\ MarkersOthersIdle

\* Timeline (markers) and Grid (unit count) render for the range.
MarkersRender ==
    /\ markersOut = << >>
    /\ markersOut' =
          [ markers |-> generateTimelineMarkers(markersIn.range[1], markersIn.range[2],
                            markersIn.step, markersIn.dayOneWeekday),
            unitCount |-> getTimelineUnitCount(markersIn.range[1], markersIn.range[2],
                              markersIn.step) ]
    /\ UNCHANGED markersIn
    /\ MarkersFrame

MarkersNext == MarkersRender

SpecMarkers == MarkersInit /\ [][MarkersNext]_vars

\* ------------------------------------------------------------------------
\* C28 (SpecMarkers).  For every range of calculateTimelineRange and every
\* step the number of markers equals the unit count.
\* ------------------------------------------------------------------------
C28_MarkersMatchUnits ==
    markersOut # << >> => Len(markersOut.markers) = markersOut.unitCount

\* The same for the steps day and month only.
C28_DayAndMonthMarkersMatchUnits ==
    (markersOut # << >> /\ markersIn.step # "week") =>
        Len(markersOut.markers) = markersOut.unitCount

\* ------------------------------------------------------------------------
\* Month grid: calendarHelpers.ts generateMonthDays and MonthView, which
\* slices the days into weeks of 7 and renders in each week the events of
\* getMultiDayEventsForWeek with the span of calculateEventSpanInWeek.
\* ------------------------------------------------------------------------
generateMonthDays(month, dayOneWeekday) ==
    LET monthStart == startOfMonth(startOfDay(MonthFirstDay(month)))
        monthEnd == endOfMonth(startOfDay(MonthFirstDay(month)))
        calendarStart == startOfWeekDay(monthStart, dayOneWeekday)
        calendarEnd == startOfWeekDay(monthEnd, dayOneWeekday) + 6
    IN  eachDayOfInterval(startOfDay(calendarStart), endOfDay(calendarEnd))

\* for (i = 0; i < days.length; i += 7) result.push(days.slice(i, i + 7))
weeksOf(days) ==
    [ w \in 1..((Len(days) + 6) \div 7) |->
        SubSeq(days, 7 * (w - 1) + 1, IF 7 * w < Len(days) THEN 7 * w ELSE Len(days)) ]

\* The MultiDayEvent elements of one week row.
weekRow(events, week) ==
    LET multiDayEvents == getMultiDayEventsForWeek(events, week)
    IN  [ n \in 1..Len(multiDayEvents) |->
            [ id |-> multiDayEvents[n].id,
              span |-> calculateEventSpanInWeek(multiDayEvents[n], week) ] ]

monthView(month, dayOneWeekday, events) ==
    LET weeks == weeksOf(generateMonthDays(month, dayOneWeekday))
    IN  [ weeks |-> weeks,
          rows |-> [ w \in 1..Len(weeks) |-> weekRow(events, weeks[w]) ] ]

\* ------------------------------------------------------------------------
\* Specification of the month grid: the view shows January or February of
\* a year that begins on any weekday; events g1, g2 arrive one by one,
\* each starting 2 days before the grid's first day or on its 1st, 4th,
\* 7th or 13th day, at any tick, and covering 1, 2, 8, 10 or 45 days.
\* ------------------------------------------------------------------------
GridMonths == { 1, 2 }

GridEventIds == << "g1", "g2" >>

GridStartOffsets == { -2, 0, 3, 6, 12 }

GridEventLengths == { 1, 2, 8, 10, 45 }

GridInit ==
    /\ \E month \in GridMonths : \E dayOneWeekday \in 0..6 :
          gridMonth = [ month |-> month, dayOneWeekday |-> dayOneWeekday ]
    /\ gridEvents = << >>
    /\ gridOut = monthView(gridMonth.month, gridMonth.dayOneWeekday, << >>)
    /\ GridOthersIdle

GridAddEvent ==
    /\ Len(gridEvents) < Len(GridEventIds)
    /\ \E offset \in GridStartOffsets, tick \in 0..(TicksPerDay - 1),
          length \in GridEventLengths :
          LET day == gridOut.weeks[1][1] + offset
          IN  gridEvents' = Append(gridEvents,
                  CalendarEvent(GridEventIds[Len(gridEvents) + 1],
                                startOfDay(day) + tick, startOfDay(day + length - 1)))
    /\ gridOut' = monthView(gridMonth.month, gridMonth.dayOneWeekday, gridEvents')
    /\ UNCHANGED gridMonth
    /\ GridFrame

GridNext == GridAddEvent

SpecGrid == GridInit /\ [][GridNext]_vars

\* ------------------------------------------------------------------------
\* C29 (SpecGrid).  Across the weeks of the month grid, the columns covered
\* by the per-week spans of a multi-day event are exactly the grid days
\* within the event's inclusive date range, each covered once; and for two
\* consecutive weeks that both show the event, continuesAfter in the
\* earlier week holds exactly when continuesBefore holds in the later one.
\* ------------------------------------------------------------------------
\* The positions of the event in the row of week w.
PlacesInWeek(id, w) == { n \in 1..Len(gridOut.rows[w]) : gridOut.rows[w][n].id = id }

SpanInWeek(id, w) == gridOut.rows[w][CHOOSE n \in PlacesInWeek(id, w) : TRUE].span

\* The days under the columns of the event in week w.
CoveredInWeek(id, w) ==
    IF PlacesInWeek(id, w) = {} THEN {}
    ELSE { gridOut.weeks[w][c + 1] :
             c \in SpanInWeek(id, w).startCol ..
                   (SpanInWeek(id, w).startCol + SpanInWeek(id, w).colSpan - 1) }

GridDaysInRange(event, w) ==
    { gridOut.weeks[w][c] : c \in 1..7 } \cap (DayOf(event.date) .. DayOf(event.endDate))

C29_SpansCoverRange ==
    \A i \in 1..Len(gridEvents) :
        LET event == gridEvents[i]
        IN  DayOf(event.date) # DayOf(event.endDate) =>
              /\ \A w \in 1..Len(gridOut.weeks) :
                    /\ Cardinality(PlacesInWeek(event.id, w)) <= 1
                    /\ PlacesInWeek(event.id, w) # {} =>
                          /\ SpanInWeek(event.id, w).startCol \in 0..6
                          /\ SpanInWeek(event.id, w).colSpan >= 1
                          /\ SpanInWeek(event.id, w).startCol
                                + SpanInWeek(event.id, w).colSpan <= 7
                    /\ CoveredInWeek(event.id, w) = GridDaysInRange(event, w)
              /\ \A w \in 1..(Len(gridOut.weeks) - 1) :
                    (PlacesInWeek(event.id, w) # {} /\ PlacesInWeek(event.id, w + 1) # {}) =>
                        (SpanInWeek(event.id, w).continuesAfter
                            <=> SpanInWeek(event.id, w + 1).continuesBefore)

\* A January grid that begins before day 1, with an event that begins
\* before the grid and is shown in its first three weeks, and an event
\* inside the second week.
C29_Witness ==
    /\ gridMonth.month = 1
    /\ gridOut.weeks[1][1] < 1
    /\ Len(gridEvents) = 2
    /\ DayOf(gridEvents[1].date) < gridOut.weeks[1][1]
    /\ PlacesInWeek("g1", 1) # {} /\ PlacesInWeek("g1", 2) # {}
    /\ PlacesInWeek("g1", 3) = {}
    /\ SpanInWeek("g1", 1).continuesBefore /\ SpanInWeek("g1", 1).continuesAfter
    /\ SpanInWeek("g1", 2).continuesBefore /\ ~SpanInWeek("g1", 2).continuesAfter
    /\ PlacesInWeek("g2", 2) # {} /\ PlacesInWeek("g2", 1) = {}
    /\ SpanInWeek("g2", 2).colSpan = 2
    /\ Len(gridOut.rows[2]) = 2

\* ------------------------------------------------------------------------
\* calculateDateFromDelta with its step argument (dateCalculations.ts
\* 127-142) and date-fns addDays, addWeeks and addMonths.  A date is a day
\* number of the year; the time of day is kept by all three.
\* ------------------------------------------------------------------------
addDays(day, amount) == day + amount

addWeeks(day, amount) == addDays(day, amount * 7)

\* addMonths: the same day of the month `amount` months away, or the last
\* day of that month when it has fewer days.
addMonths(day, amount) ==
    LET month == MonthOfDayFrom(day, 1)
        dayOfMonth == day - MonthFirstDay(month) + 1
        desiredMonth == month + amount
    IN  IF dayOfMonth >= MonthLength(desiredMonth) THEN MonthLastDay(desiredMonth)
        ELSE MonthFirstDay(desiredMonth) + dayOfMonth - 1

calculateDateFromDeltaWithStep(originalDate, pixelDelta, pixelsPerUnit, step) ==
    LET unitsDelta == MathRound(pixelDelta, pixelsPerUnit)
    IN  IF step = "week" THEN addWeeks(originalDate, unitsDelta)
        ELSE IF step = "month" THEN addMonths(originalDate, unitsDelta)
        ELSE calculateDateFromDelta(originalDate, pixelDelta, pixelsPerUnit)

\* ------------------------------------------------------------------------
\* Specification of the drag of one item under a timeline step: the item
\* starts on a day of February or March and covers 1, 2, 4 or 32 days; the
\* step is day, week or month; the pointer is pressed on the bar and then
\* moves, each move at some deltaX from the press.
\* ------------------------------------------------------------------------
StepDragStartDays == MonthFirstDay(2)..MonthLastDay(3)

StepDragSpans == { 0, 1, 3, 31 }

StepDragDeltas ==
    { -PixelsPerUnit, -1, 0, 2, PixelsPerUnit, 2 * PixelsPerUnit }

StepDragInit ==
    /\ \E start \in StepDragStartDays : \E span \in StepDragSpans :
       \E step \in { "day", "week", "month" } :
          stepDragIn = [ originalStartDate |-> start, originalEndDate |-> start + span,
                         step |-> step, pixelsPerUnit |-> PixelsPerUnit ]
    /\ stepDragOut = << >>
    /\ StepDragOthersIdle

\* handleMouseMove of useTaskDrag: both dates are computed from those at
\* drag start and written.
StepDragMouseMove ==
    /\ \E deltaX \in StepDragDeltas :
          stepDragOut' =
              [ deltaX |-> deltaX,
                newStartDate |-> calculateDateFromDeltaWithStep(
                    stepDragIn.originalStartDate, deltaX,
                    stepDragIn.pixelsPerUnit, stepDragIn.step),
                newEndDate |-> calculateDateFromDeltaWithStep(
                    stepDragIn.originalEndDate, deltaX,
                    stepDragIn.pixelsPerUnit, stepDragIn.step) ]
    /\ UNCHANGED stepDragIn
    /\ StepDragFrame

StepDragNext == StepDragMouseMove

SpecStepDrag == StepDragInit /\ [][StepDragNext]_vars

\* ------------------------------------------------------------------------
\* C30 (SpecStepDrag).  A drag changes the start date and the end date by
\* the same number of days for every step, so the item covers as many days
\* after the drag as before.
\* ------------------------------------------------------------------------
C30_DragKeepsDuration ==
    stepDragOut # << >> =>
        stepDragOut.newStartDate - stepDragIn.originalStartDate
            = stepDragOut.newEndDate - stepDragIn.originalEndDate

\* The same for the steps day and week only.
C30_DayAndWeekDragKeepsDuration ==
    (stepDragOut # << >> /\ stepDragIn.step # "month") =>
        stepDragOut.newStartDate - stepDragIn.originalStartDate
            = stepDragOut.newEndDate - stepDragIn.originalEndDate

====
